---- MODULE Spec2Model ----
(***************************************************************************)
(* State-machine model of the openweb-frontend checkout application:       *)
(*   - CartService            (src/src/app/core/services/cart.service.ts)  *)
(*   - CheckoutWizardComponent (src/.../checkout-wizard/checkout-wizard.ts)*)
(*   - CobranzaWizardComponent (src/unnamed/part_003)                      *)
(*   - ConfirmationModalService / ErrorModalService                        *)
(*                                                                         *)
(* Strings the code trims, pattern-matches or compares character by        *)
(* character (e-mail, document number, debt code) are tuples of one-char   *)
(* strings.  Money is an integer number of thousandths of the currency     *)
(* unit, so that Decimal.toDecimalPlaces(2) is a real rounding step.       *)
(***************************************************************************)
EXTENDS Integers, Sequences, FiniteSets, TLC

VARIABLES
  \* ---- CartService + sessionStorage
  cart,            \* signal<Carrito | null>
  storedCart,      \* sessionStorage['redis_cart_items'] (parsed), Null or Corrupt
  storedSession,   \* sessionStorage['redis_session_id'], or NoSession
  \* ---- CheckoutWizardComponent
  ckCurrentStep,   \* currentStep signal
  ckLoading,       \* loading signal
  ckErrors,        \* errors signal
  itemsCart,       \* itemsCart signal (local snapshot)
  form,            \* reactive form values
  qrData,          \* qrData signal
  showExceptionNIT,
  ckPending,       \* backend calls / fingerprint promises in flight
  \* ---- CobranzaWizardComponent
  aliasServicio,   \* alias taken from the route parameters
  config,          \* signal<ServicioConfig | null>
  dwCurrentStep,   \* currentStep signal
  dwLoading,       \* loading signal
  dwErrors,        \* errors signal
  codigoDeuda,     \* searchForm.codigoDeuda
  contracts,
  selectedContract,
  outstandingDebts,
  selectedDebts,
  associateData,
  dwPending,       \* backend calls in flight
  \* ---- ErrorModalService / ConfirmationModalService
  errorModal,
  confirmModal,    \* [visible, resolver, tracked, superseded]: resolver is
                   \* the pending addToCart the service holds; superseded
                   \* lists the pending ones whose resolve function it has
                   \* overwritten, kept only when tracked is set (nothing
                   \* refers to them any more, so no handler can read them)
  \* ---- router
  route,
  navTarget,       \* navigation requested by router.navigate, not yet ended
  \* ---- FingerprintService + sessionStorage + clock
  fpCache,         \* sessionStorage['browser_fingerprint_cache'] (parsed) or Null
  fingerprint,     \* fingerprint signal (currentFingerprint)
  now              \* Date.now(), in minutes

cartVars  == <<cart, storedCart, storedSession>>
ckVars    == <<ckCurrentStep, ckLoading, ckErrors, itemsCart, form, qrData,
               showExceptionNIT, ckPending>>
dwVars    == <<aliasServicio, config, dwCurrentStep, dwLoading, dwErrors,
               codigoDeuda, contracts, selectedContract, outstandingDebts,
               selectedDebts, associateData, dwPending>>
modalVars == <<errorModal, confirmModal>>
navVars   == <<route, navTarget>>
fpVars    == <<fpCache, fingerprint, now>>
vars      == <<cartVars, ckVars, dwVars, modalVars, navVars, fpVars>>

(***************************************************************************)
(* Bounds of the model                                                     *)
(***************************************************************************)
MaxErrors   == 2    \* longest inline error list explored
MaxInFlight == 2    \* most asynchronous operations one wizard has pending
MaxDebts    == 3    \* longest pagosPendientes list a debts response carries
MaxItems    == 2    \* most items of a cart the checkout is entered with
MaxClock    == 7    \* minutes of clock time explored
MaxSuperseded == 1  \* most confirm() promises left behind by later calls

(***************************************************************************)
(* Values                                                                  *)
(***************************************************************************)
Null      == [null |-> TRUE]
NoSession == "none"

Str0        == << >>
EmailGood   == <<"a", "@", "b", ".", "c">>
Nit99001    == <<"9", "9", "0", "0", "1">>
Nit99002    == <<"9", "9", "0", "0", "2">>
Nit99003    == <<"9", "9", "0", "0", "3">>
NitOther    == <<"1", "2", "3", "4", "5", "6", "7", "8">>
ControlTributario == <<"C", "T">>

IsSpace(ch) == ch = " "

RECURSIVE TrimStart(_)
TrimStart(s) ==
  IF s # << >> /\ IsSpace(Head(s)) THEN TrimStart(Tail(s)) ELSE s

RECURSIVE TrimEnd(_)
TrimEnd(s) ==
  IF s # << >> /\ IsSpace(s[Len(s)]) THEN TrimEnd(SubSeq(s, 1, Len(s) - 1)) ELSE s

\* String.prototype.trim
\* no trimming at all
TrimNone(s) == s

Trim(s) == TrimEnd(TrimStart(s))

\* one or more characters, none of them white space or '@'  ([^\s@]+)
NoSpaceAt(s) == s # << >> /\ \A k \in 1..Len(s) : ~IsSpace(s[k]) /\ s[k] # "@"

\* /^[^\s@]+@[^\s@]+\.[^\s@]+$/.test(s)
EmailRegexTest(s) ==
  \E i \in 1..Len(s) : \E j \in 1..Len(s) :
     /\ i < j
     /\ s[i] = "@"
     /\ s[j] = "."
     /\ NoSpaceAt(SubSeq(s, 1, i - 1))
     /\ NoSpaceAt(SubSeq(s, i + 1, j - 1))
     /\ NoSpaceAt(SubSeq(s, j + 1, Len(s)))

(***************************************************************************)
(* Decimal arithmetic (decimal.js-light, ROUND_HALF_UP); unit = 1/1000     *)
(***************************************************************************)
\* a rounding to one decimal place instead of two
ToDecimalPlaces1(m) == ((m + 50) \div 100) * 100

\* Decimal.toDecimalPlaces(2) on a non-negative amount
ToDecimalPlaces2(m) == ((m + 5) \div 10) * 10

RECURSIVE SumOver(_, _)
\* items.reduce((sum, x) => sum.plus(x[field]), new Decimal(0))
SumOver(s, field) ==
  IF s = << >> THEN 0 ELSE s[1][field] + SumOver(Tail(s), field)

(***************************************************************************)
(* CartService                                                             *)
(***************************************************************************)
\* items = computed(() => this.cart()?.items ?? [])
Items(c) == IF c = Null THEN << >> ELSE c.items

\* the service's state and its environment during one call: the cart signal,
\* the two sessionStorage keys, the sessionStorage operations that throw
\* (io), the value generateSessionId returns (fresh), and whether the call
\* has thrown
StoreOf(c, b, s) ==
  [cart |-> c, blob |-> b, sid |-> s, io |-> {}, fresh |-> "sid1", threw |-> FALSE]

\* a call made while the operations in io throw and Date.now / Math.random
\* make generateSessionId return fresh
Env(st, io, fresh) == [st EXCEPT !.io = io, !.fresh = fresh]

\* a value under STORAGE_KEY that JSON.parse rejects, or that parses to
\* something without an items array
Corrupt == [corrupt |-> TRUE]

\* a getOrCreateSessionId that generates an id without storing it
GetOrCreateSessionIdUnstored(st) ==
  IF "get" \in st.io THEN [st |-> [st EXCEPT !.threw = TRUE], id |-> NoSession]
  ELSE IF st.sid # NoSession THEN [st |-> st, id |-> st.sid]
  ELSE [st |-> st, id |-> st.fresh]

\* getOrCreateSessionId: reuse the stored id, or generate and store one
GetOrCreateSessionId(st) ==
  IF "get" \in st.io THEN [st |-> [st EXCEPT !.threw = TRUE], id |-> NoSession]
  ELSE IF st.sid # NoSession THEN [st |-> st, id |-> st.sid]
  ELSE IF "set" \in st.io THEN [st |-> [st EXCEPT !.threw = TRUE], id |-> NoSession]
  ELSE [st |-> [st EXCEPT !.sid = st.fresh], id |-> st.fresh]

\* saveCart: writes the current cart, if any, under STORAGE_KEY
SaveCart(st) ==
  IF st.cart = Null THEN st
  ELSE IF "set" \in st.io THEN [st EXCEPT !.threw = TRUE]
  ELSE [st EXCEPT !.blob = st.cart]

\* totalServices / totalCommissions / totalGeneral of the store: the plain
\* Decimal sum of one field over the items, not rounded
CartTotal(items, field) == SumOver(items, field)

\* a clearCart that resets the signal and leaves STORAGE_KEY in place
ClearCartSignalOnly(st) == [st EXCEPT !.cart = Null]

\* clearCart: cart signal := null, STORAGE_KEY removed, SESSION_KEY kept
ClearCart(st) ==
  IF "remove" \in st.io THEN [st EXCEPT !.cart = Null, !.threw = TRUE]
  ELSE [st EXCEPT !.cart = Null, !.blob = Null]

\* a load that restores whatever parses, without validateSession
LoadCartTrusting(st) ==
  IF st.blob = Null THEN st
  ELSE IF st.blob = Corrupt THEN ClearCart(st)
  ELSE [st EXCEPT !.cart = st.blob]

\* loadCart (called by the constructor, the cart signal being null): parse,
\* default a missing abreviacionMoneda to 'Bs.', validateSession, restore or
\* clearCart; the catch block calls clearCart outside any try
LoadCart(st) ==
  LET migrated == [st.blob EXCEPT !.items =
                     [k \in DOMAIN st.blob.items |->
                        IF st.blob.items[k].abreviacionMoneda = ""
                        THEN [st.blob.items[k] EXCEPT !.abreviacionMoneda = "Bs."]
                        ELSE st.blob.items[k]]]
      caught == ClearCart([st EXCEPT !.threw = FALSE])
  IN IF "get" \in st.io THEN caught
     ELSE IF st.blob = Null THEN st
     ELSE IF st.blob = Corrupt THEN caught
     ELSE IF st.sid = st.blob.sessionId THEN [st EXCEPT !.cart = migrated]
     ELSE IF ClearCart(st).threw THEN caught
     ELSE ClearCart(st)

\* addItem: session id, append, cart.set, saveCart, all inside try; the
\* catch returns false
AddItem(st, item) ==
  LET g == GetOrCreateSessionId(st)
      newCart == [sessionId |-> g.id,
                  items     |-> Append(Items(st.cart), item)]
      saved == SaveCart([g.st EXCEPT !.cart = newCart])
      r == IF g.st.threw THEN g.st ELSE saved
  IN [st |-> [r EXCEPT !.threw = FALSE], ret |-> ~r.threw]

\* currentCart.items.filter((_, i) => i !== index)  (index is 0-based)
RECURSIVE FilterOut(_, _)
FilterOut(s, index) ==
  IF s = << >> THEN << >>
  ELSE IF index = 0 THEN Tail(s)
       ELSE <<Head(s)>> \o FilterOut(Tail(s), index - 1)

\* a removeItem that drops the last item when the index is out of range
RemoveItemClamped(st, index) ==
  IF st.cart = Null THEN st
  ELSE LET n == Len(st.cart.items)
           newItems == FilterOut(st.cart.items,
                          IF index < 0 \/ index >= n THEN n - 1 ELSE index)
       IN IF Len(newItems) = 0 THEN ClearCart(st)
          ELSE SaveCart([st EXCEPT !.cart = [st.cart EXCEPT !.items = newItems]])

\* removeItem (no try / catch)
RemoveItem(st, index) ==
  IF st.cart = Null THEN st
  ELSE LET newItems == FilterOut(st.cart.items, index)
       IN IF Len(newItems) = 0 THEN ClearCart(st)
          ELSE SaveCart([st EXCEPT !.cart = [st.cart EXCEPT !.items = newItems]])

\* a replaceItem that appends the new item and keeps the old one
ReplaceItemAppending(st, index, newItem) ==
  [st  |-> [st EXCEPT !.cart = [sessionId |-> GetOrCreateSessionId(st).id,
                                items     |-> Append(Items(st.cart), newItem)],
                      !.blob = [sessionId |-> GetOrCreateSessionId(st).id,
                                items     |-> Append(Items(st.cart), newItem)]],
   ret |-> TRUE]

\* replaceItem: range check, cart.set, saveCart, all inside try; the catch
\* returns false
ReplaceItem(st, index, newItem) ==
  IF st.cart = Null \/ index < 0 \/ index >= Len(st.cart.items)
  THEN [st |-> st, ret |-> FALSE]
  ELSE LET saved == SaveCart([st EXCEPT !.cart =
                       [st.cart EXCEPT !.items[index + 1] = newItem]])
       IN [st |-> [saved EXCEPT !.threw = FALSE], ret |-> ~saved.threw]

\* a findIndex that compares the contract code only
FindDuplicateByContract(c, alias, contrato) ==
  LET its == Items(c)
      hit == {k \in 1..Len(its) : its[k].codigoContrato = contrato}
  IN IF hit = {} THEN -1
     ELSE (CHOOSE k \in hit : \A h \in hit : k <= h) - 1

\* findDuplicateIndex: Array.findIndex, first match or -1
FindDuplicateIndex(c, alias, contrato) ==
  LET its == Items(c)
      hit == {k \in 1..Len(its) : /\ its[k].aliasServicio = alias
                                  /\ its[k].codigoContrato = contrato}
  IN IF hit = {} THEN -1
     ELSE (CHOOSE k \in hit : \A h \in hit : k <= h) - 1

\* a currency check that accepts every currency
CanAddAnyCurrency(c, abreviacionMoneda) ==
  [canAdd |-> TRUE, existingCurrency |-> "null"]

\* canAddItemWithCurrency
CanAddItemWithCurrency(c, abreviacionMoneda) ==
  LET its == Items(c)
  IN IF Len(its) = 0
     THEN [canAdd |-> TRUE, existingCurrency |-> "null"]
     ELSE [canAdd |-> its[1].abreviacionMoneda = abreviacionMoneda,
           existingCurrency |-> its[1].abreviacionMoneda]

Store == StoreOf(cart, storedCart, storedSession)

SetStore(st) ==
  /\ cart' = st.cart
  /\ storedCart' = st.blob
  /\ storedSession' = st.sid

(***************************************************************************)
(* ErrorModalService                                                       *)
(***************************************************************************)
ErrorTypes == {"error", "warning", "alert", "info"}

\* DEFAULT_CONFIGS[type].redirectToMain
DefaultRedirect(type) == type = "error"

ModalHidden == [visible |-> FALSE, type |-> "error", code |-> "ERR_500",
                redirectToMain |-> TRUE]

\* a show that merges the call into the configuration on display: a redirect
\* once configured stays
ShowSticky(type, customConfig) ==
  [visible |-> TRUE, type |-> type,
   code |-> IF "code" \in DOMAIN customConfig THEN customConfig.code
            ELSE errorModal.code,
   redirectToMain |-> \/ errorModal.redirectToMain
                      \/ IF "redirectToMain" \in DOMAIN customConfig
                         THEN customConfig.redirectToMain
                         ELSE DefaultRedirect(type)]

\* show(type, customConfig): { ...DEFAULT_CONFIGS[type], ...customConfig, type }
\* replaces the configuration and makes the modal visible; customConfig is a
\* record holding the fields the call gives
Show(type, customConfig) ==
  [visible |-> TRUE, type |-> type,
   code |-> IF "code" \in DOMAIN customConfig THEN customConfig.code
            ELSE CASE type = "error"   -> "ERR_500"
                   [] type = "warning" -> "WARN_400"
                   [] type = "alert"   -> "ALERT_300"
                   [] OTHER            -> "INFO_100",
   redirectToMain |-> IF "redirectToMain" \in DOMAIN customConfig
                      THEN customConfig.redirectToMain
                      ELSE DefaultRedirect(type)]

\* An error raised by a backend call: a recognised envelope of one of the
\* four types, or anything else ("plain").
ApiErrors == ErrorTypes \cup {"plain"}

\* isApiError / extractApiError
IsApiError(error) == error \in ErrorTypes

\* handleHttpError: shows the modal for a recognised envelope
HandleHttpError(m, error) ==
  IF IsApiError(error)
  THEN [modal |-> Show(error, [code |-> "API"]), ret |-> TRUE]
  ELSE [modal |-> m, ret |-> FALSE]

(***************************************************************************)
(* FingerprintService.  Time is counted in minutes.  A call's environment  *)
(* is the set of things that fail during it: "get", "set", "remove" (the   *)
(* sessionStorage call throws), "canvas", "webgl" (the API throws or is    *)
(* missing), "digest" (crypto.subtle missing or digest throwing), and      *)
(* "screen" (the window is on another screen than before).  SHA-256 is     *)
(* modelled as an injective map from the components to a non-empty string. *)
(***************************************************************************)
CACHE_DURATION == 5

\* a getCached that already expires the entry when exactly the TTL has passed
GetCachedEager(blob, t, env) ==
  IF "get" \in env \/ blob = Null THEN [blob |-> blob, ret |-> ""]
  ELSE IF t - blob.timestamp >= CACHE_DURATION
    THEN [blob |-> IF "remove" \in env THEN blob ELSE Null, ret |-> ""]
  ELSE [blob |-> blob, ret |-> blob.fingerprint]

\* getCached: [blob, ret], ret = "" standing for null
GetCached(blob, t, env) ==
  IF "get" \in env \/ blob = Null THEN [blob |-> blob, ret |-> ""]
  ELSE IF t - blob.timestamp > CACHE_DURATION
    THEN [blob |-> IF "remove" \in env THEN blob ELSE Null, ret |-> ""]
  ELSE [blob |-> blob, ret |-> blob.fingerprint]

\* collectComponents with getCanvasFingerprint / getWebGLFingerprint
CollectComponents(env) ==
  [screen |-> IF "screen" \in env THEN "1280x720" ELSE "1920x1080",
   canvas |-> IF "canvas" \in env THEN "canvas_error" ELSE "data:image/png",
   webgl  |-> IF "webgl" \in env THEN "webgl_not_supported" ELSE "vendor~renderer"]

\* a hashComponents that gives up when a component is a placeholder
HashComponentsStrict(components, env) ==
  IF \/ "digest" \in env
     \/ components.canvas = "canvas_error"
     \/ components.webgl = "webgl_not_supported"
  THEN ""
  ELSE "sha256(" \o components.screen \o "," \o components.canvas \o ","
          \o components.webgl \o ")"

\* hashComponents: the hex digest, or '' when the digest is unavailable
HashComponents(components, env) ==
  IF "digest" \in env THEN ""
  ELSE "sha256(" \o components.screen \o "," \o components.canvas \o ","
          \o components.webgl \o ")"

(***************************************************************************)
(* The inline error list only grows until a handler clears it.  The model  *)
(* explores the runs in which it never holds more than MaxErrors messages: *)
(* a handler may add a message, or start a call whose completion may add   *)
(* one, only while there is room for it.                                   *)
(***************************************************************************)
Room(errors, pending) == Len(errors) + Len(pending) < MaxErrors

(***************************************************************************)
(* CheckoutWizardComponent                                                 *)
(***************************************************************************)
FormInit == [medioPago         |-> "",
             razonSocial       |-> ControlTributario,
             tipoDocumento     |-> 5,
             documentoSIN      |-> Nit99002,
             excepcionNIT      |-> "false",
             correoElectronico |-> Str0]

QrEmpty == [validity |-> "", qrImage |-> ""]

totalSteps == 5

RemoveAt(s, i) == SubSeq(s, 1, i - 1) \o SubSeq(s, i + 1, Len(s))

\* hasItems = computed(() => this.itemsCart().length > 0)
HasItems(items) == Len(items) > 0

\* totalServices / totalCommissions / totalGeneral of the local snapshot
CkTotalServices(items)    == ToDecimalPlaces2(SumOver(items, "totalServicio"))
CkTotalCommissions(items) == ToDecimalPlaces2(SumOver(items, "totalComision"))
CkTotalGeneral(items) ==
  ToDecimalPlaces2(CkTotalServices(items) + CkTotalCommissions(items))

\* hasCommissions = computed(() => this.totalCommissions() > 0)
HasCommissions(items) == CkTotalCommissions(items) > 0

\* loadCart (ngOnInit): snapshot of the store's items, e-mail pre-filled
\* from the first item
LoadCartForm(items) ==
  IF Len(items) > 0 /\ items[1].correoElectronico # Str0
  THEN [FormInit EXCEPT !.correoElectronico = items[1].correoElectronico]
  ELSE FormInit

CkMount(items) ==
  /\ ckCurrentStep = 1
  /\ ckLoading = FALSE
  /\ ckErrors = << >>
  /\ itemsCart = items
  /\ form = LoadCartForm(items)
  /\ qrData = QrEmpty
  /\ showExceptionNIT = FALSE
  /\ ckPending = << >>

\* nextStep: clears the errors and increments below totalSteps
NextStepValue(step) == IF step < totalSteps THEN step + 1 ELSE step

\* validateBillingShipping: "" when valid, else the error it adds
ValidateBillingShipping(f, items) ==
  IF Trim(f.correoElectronico) = Str0
    THEN "El correo electronico es obligatorio"
  ELSE IF ~EmailRegexTest(f.correoElectronico)
    THEN "El correo electronico no tiene un formato valido"
  ELSE IF HasCommissions(items) /\ Trim(f.razonSocial) = Str0
    THEN "La Razon Social es obligatoria"
  ELSE IF HasCommissions(items) /\ Trim(f.documentoSIN) = Str0
    THEN "El numero de documento es obligatorio"
  ELSE ""

\* validateCurrentStep: "" when valid, else the error it adds
ValidateCurrentStep(step, f, items) ==
  CASE step = 1 -> IF ~HasItems(items) THEN "El carrito esta vacio" ELSE ""
    [] step = 2 -> IF f.medioPago = ""
                   THEN "Debe seleccionar un metodo de pago" ELSE ""
    [] step = 3 -> ValidateBillingShipping(f, items)
    [] OTHER    -> ""

\* ['99001', '99002', '99003'].includes(documentSIN)
IsSpecialNIT(doc) == doc \in {Nit99001, Nit99002, Nit99003}

\* a validateNIT without the allow-list of control numbers
ValidateNITDecisionNoAllowList(f) ==
  IF f.tipoDocumento # 5 THEN "next"
  ELSE IF f.excepcionNIT = "true" THEN "next"
  ELSE "verify"

\* a validateNIT that ignores the accepted exception
ValidateNITDecisionNoException(f) ==
  IF f.tipoDocumento # 5 THEN "next"
  ELSE IF IsSpecialNIT(f.documentoSIN) THEN "next"
  ELSE "verify"

\* validateNIT up to the backend call: "next" or "verify"
ValidateNITDecision(f) ==
  IF f.tipoDocumento # 5 THEN "next"
  ELSE IF IsSpecialNIT(f.documentoSIN) THEN "next"
  ELSE IF f.excepcionNIT = "true" THEN "next"
  ELSE "verify"

CkLive == route = "carrito"

\* handleProcessPaymentClick: processCardPayments is true, so nextStep()
HandleProcessPaymentClick ==
  /\ CkLive
  /\ ckErrors' = << >>
  /\ ckCurrentStep' = NextStepValue(ckCurrentStep)
  /\ UNCHANGED <<fpVars, cartVars, ckLoading, itemsCart, form, qrData,
                 showExceptionNIT, ckPending, modalVars, dwVars, navVars>>

\* handleNextStep (with validateCurrentStep, validateNIT, nextStep)
HandleNextStep ==
  LET err == ValidateCurrentStep(ckCurrentStep, form, itemsCart)
      nit == /\ ckCurrentStep = 3
             /\ HasCommissions(itemsCart)
             /\ form.tipoDocumento = 5
      verify == err = "" /\ nit /\ ValidateNITDecision(form) = "verify"
  IN
  /\ CkLive
  /\ verify => Len(ckPending) < MaxInFlight
  /\ (verify \/ err # "") => Room(<< >>, ckPending)
  /\ IF err # ""
     THEN /\ ckErrors' = <<err>>
          /\ UNCHANGED <<ckCurrentStep, ckLoading, ckPending>>
     ELSE IF verify
     THEN /\ ckErrors' = << >>
          /\ ckLoading' = TRUE
          /\ ckPending' = Append(ckPending,
                 [kind |-> "nit", live |-> TRUE, data |-> form.documentoSIN])
          /\ UNCHANGED ckCurrentStep
     ELSE /\ ckErrors' = << >>
          /\ ckCurrentStep' = NextStepValue(ckCurrentStep)
          /\ UNCHANGED <<ckLoading, ckPending>>
  /\ UNCHANGED <<fpVars, cartVars, itemsCart, form, qrData, showExceptionNIT,
                 modalVars, dwVars, navVars>>

\* a prevStep without the step-5 guard
CkPrevStepUnguarded ==
  /\ CkLive
  /\ ckErrors' = << >>
  /\ ckCurrentStep' = IF ckCurrentStep > 1 THEN ckCurrentStep - 1
                      ELSE ckCurrentStep
  /\ UNCHANGED <<fpVars, cartVars, ckLoading, itemsCart, form, qrData,
                 showExceptionNIT, ckPending, modalVars, dwVars, navVars>>

\* prevStep
CkPrevStep ==
  /\ CkLive
  /\ IF ckCurrentStep = 5
     THEN UNCHANGED <<ckErrors, ckCurrentStep>>
     ELSE /\ ckErrors' = << >>
          /\ ckCurrentStep' = IF ckCurrentStep > 1 THEN ckCurrentStep - 1
                              ELSE ckCurrentStep
  /\ UNCHANGED <<fpVars, cartVars, ckLoading, itemsCart, form, qrData,
                 showExceptionNIT, ckPending, modalVars, dwVars, navVars>>

\* removeItem(index): bounds-checked against the snapshot, then re-synced
CkRemoveItem(index) ==
  /\ CkLive
  /\ IF index < 0 \/ index >= Len(itemsCart)
     THEN UNCHANGED <<cartVars, itemsCart>>
     ELSE LET st == RemoveItem(Store, index)
          IN /\ SetStore(st)
             /\ itemsCart' = Items(st.cart)
  /\ UNCHANGED <<fpVars, ckCurrentStep, ckLoading, ckErrors, form, qrData,
                 showExceptionNIT, ckPending, modalVars, dwVars, navVars>>

\* the user edits a control of the reactive form (setPaymentMethod,
\* setExceptionNIT and the bound inputs)
SetFormField(field, value) ==
  /\ CkLive
  /\ form[field] # value
  /\ form' = [form EXCEPT ![field] = value]
  /\ UNCHANGED <<fpVars, cartVars, ckCurrentStep, ckLoading, ckErrors, itemsCart,
                 qrData, showExceptionNIT, ckPending, modalVars, dwVars, navVars>>

\* changeBillingDataMode(unNamed)
ChangeBillingDataMode(unNamed) ==
  /\ CkLive
  /\ IF unNamed
     THEN /\ form' = [form EXCEPT !.razonSocial = ControlTributario,
                                  !.tipoDocumento = 5,
                                  !.documentoSIN = Nit99002,
                                  !.excepcionNIT = "false"]
          /\ showExceptionNIT' = FALSE
     ELSE /\ form' = [form EXCEPT !.razonSocial = Str0,
                                  !.documentoSIN = Str0]
          /\ UNCHANGED showExceptionNIT
  /\ UNCHANGED <<fpVars, cartVars, ckCurrentStep, ckLoading, ckErrors, itemsCart,
                 qrData, ckPending, modalVars, dwVars, navVars>>

\* a handleApiError that swallows the error
CkHandleApiErrorSilent(error, fallbackMessage) ==
  /\ errorModal' = errorModal
  /\ ckErrors' = ckErrors

\* handleApiError: the modal for a recognised envelope, else an inline error
CkHandleApiError(error, fallbackMessage) ==
  LET h == HandleHttpError(errorModal, error)
  IN /\ errorModal' = h.modal
     /\ ckErrors' = IF h.ret THEN ckErrors ELSE Append(ckErrors, fallbackMessage)

\* the verifyNIT subscription's next / error callback
NitResponse(i, resp) ==
  /\ i \in DOMAIN ckPending
  /\ ckPending[i].kind = "nit"
  /\ ckPending[i].live
  /\ ckPending' = RemoveAt(ckPending, i)
  /\ ckLoading' = FALSE
  /\ CASE resp = "valid" ->
            /\ ckErrors' = << >>
            /\ ckCurrentStep' = NextStepValue(ckCurrentStep)
            /\ UNCHANGED <<showExceptionNIT, errorModal>>
       [] resp = "invalid" ->
            /\ showExceptionNIT' = TRUE
            /\ IF form.excepcionNIT = "true"
               THEN /\ ckErrors' = << >>
                    /\ ckCurrentStep' = NextStepValue(ckCurrentStep)
               ELSE /\ ckErrors' = Append(ckErrors,
                        "NIT invalido. Confirme si se realiza Excepcion de registro con ese NIT")
                    /\ UNCHANGED ckCurrentStep
            /\ UNCHANGED errorModal
       [] OTHER ->
            /\ CkHandleApiError(resp, "Error al validar NIT")
            /\ UNCHANGED <<ckCurrentStep, showExceptionNIT>>
  /\ UNCHANGED <<fpVars, cartVars, itemsCart, form, qrData, confirmModal, dwVars, navVars>>

\* processPayment up to the first suspension of fingerprint.generate():
\* the pre-checks, then getCached and, on a miss, collectComponents
ProcessPayment(env) ==
  LET err == IF Trim(form.correoElectronico) = Str0
               THEN "Debe ingresar un correo electronico"
             ELSE IF form.medioPago # "Q"
               THEN "Metodo de pago no implementado"
             ELSE ""
      g == GetCached(fpCache, now, env)
  IN
  /\ CkLive
  /\ IF ckLoading
     THEN UNCHANGED <<ckErrors, ckLoading, ckPending, fpCache, fingerprint>>
     ELSE IF err # ""
     THEN /\ Room(ckErrors, ckPending)
          /\ ckErrors' = Append(ckErrors, err)
          /\ UNCHANGED <<ckLoading, ckPending, fpCache, fingerprint>>
     ELSE /\ Len(ckPending) < MaxInFlight
          /\ Room(ckErrors, ckPending)
          /\ ckLoading' = TRUE
          /\ fpCache' = g.blob
          /\ fingerprint' = IF g.ret # "" THEN g.ret ELSE fingerprint
          /\ ckPending' = Append(ckPending,
                 [kind |-> "fp", live |-> TRUE,
                  data |-> [medioPago         |-> form.medioPago,
                            correoElectronico |-> form.correoElectronico,
                            cached            |-> g.ret,
                            components        |-> IF g.ret # "" THEN Null
                                                  ELSE CollectComponents(env)]])
          /\ UNCHANGED ckErrors
  /\ UNCHANGED <<cartVars, ckCurrentStep, itemsCart, form, qrData,
                 showExceptionNIT, modalVars, dwVars, navVars, now>>

\* the promise of generate() settles: on a miss hashComponents, then
\* setCached and the signal for a non-empty digest; switchMap builds
\* paymentData and issues generateQRcode
FingerprintResolved(i, env) ==
  /\ i \in DOMAIN ckPending
  /\ ckPending[i].kind = "fp"
  /\ ckPending[i].live
  /\ LET d == ckPending[i].data
         fp == IF d.cached # "" THEN d.cached
               ELSE HashComponents(d.components, env)
         fresh == d.cached = "" /\ fp # ""
     IN /\ fpCache' = IF fresh /\ "set" \notin env
                       THEN [fingerprint |-> fp, timestamp |-> now]
                       ELSE fpCache
        /\ fingerprint' = IF fresh THEN fp ELSE fingerprint
        /\ ckPending' = [ckPending EXCEPT ![i] =
              [kind |-> "pay", live |-> TRUE,
               data |-> [medioPago          |-> d.medioPago,
                         itemsCarrito       |-> itemsCart,
                         totalGeneral       |-> CkTotalGeneral(itemsCart),
                         correoElectronico  |-> d.correoElectronico,
                         browserFingerprint |-> fp]]]
  /\ UNCHANGED <<cartVars, ckCurrentStep, ckLoading, ckErrors, itemsCart,
                 form, qrData, showExceptionNIT, modalVars, dwVars, navVars, now>>

QrOk == [validity |-> "24h", qrImage |-> "qr1"]

\* a PagoResponse: success with data, success=false / no data, or an error
PaymentResponses == {"success", "failure"} \cup ApiErrors

\* the generateQRcode response through tap / catchError / finalize
PaymentResponse(i, resp) ==
  /\ i \in DOMAIN ckPending
  /\ ckPending[i].kind = "pay"
  /\ ckPending[i].live
  /\ ckPending' = RemoveAt(ckPending, i)
  /\ ckLoading' = FALSE
  /\ CASE resp = "success" ->
            /\ qrData' = QrOk
            /\ SetStore(ClearCart(Store))
            /\ ckCurrentStep' = 5
            /\ UNCHANGED <<ckErrors, errorModal>>
       [] resp = "failure" ->
            /\ ckErrors' = Append(ckErrors, "Error al procesar el pago")
            /\ UNCHANGED <<qrData, cartVars, ckCurrentStep, errorModal>>
       [] OTHER ->
            /\ CkHandleApiError(resp, "Error al procesar el pago. Intente nuevamente.")
            /\ UNCHANGED <<qrData, cartVars, ckCurrentStep>>
  /\ UNCHANGED <<fpVars, itemsCart, form, showExceptionNIT, confirmModal, dwVars, navVars>>

(***************************************************************************)
(* CobranzaWizardComponent: pure parts                                     *)
(***************************************************************************)
\* a PagoPendiente as the backend returns it (amounts with 2 decimals)
Deuda(code, servicio, comision) ==
  [periodoCode     |-> code,
   periodoServicio |-> servicio,
   periodoComision |-> comision,
   periodoTotal    |-> servicio + comision]

\* outstandingDebts.filter((_, i) => selectedDebts[i]); a flag missing from
\* a shorter selectedDebts array reads as undefined, which is falsy
RECURSIVE FilterSelected(_, _)
FilterSelected(debts, flags) ==
  IF debts = << >> THEN << >>
  ELSE (IF flags # << >> /\ Head(flags) THEN <<Head(debts)>> ELSE << >>)
       \o FilterSelected(Tail(debts), IF flags = << >> THEN << >> ELSE Tail(flags))

\* totalService / totalCommission / totalGeneral computed signals
TotalService(debts, flags) ==
  ToDecimalPlaces2(SumOver(FilterSelected(debts, flags), "periodoServicio"))
TotalCommission(debts, flags) ==
  ToDecimalPlaces2(SumOver(FilterSelected(debts, flags), "periodoComision"))
TotalGeneral(debts, flags) ==
  ToDecimalPlaces2(TotalService(debts, flags) + TotalCommission(debts, flags))

\* a count of all flags, set or not
QuantityAllDebts(flags) == Len(flags)

\* quantitySelectedDebts = selectedDebts().filter((s) => s).length
QuantitySelectedDebts(flags) == Cardinality({k \in DOMAIN flags : flags[k]})

\* the ItemCarrito addToCart builds
BuildItem(cfg, contract, assoc, debts, flags) ==
  [aliasServicio       |-> cfg.aliasServicio,
   abreviacionMoneda   |-> cfg.abreviacionMoneda,
   codigoContrato      |-> contract.codigoContrato,
   correoElectronico   |-> assoc.correoElectronico,
   totalServicio       |-> TotalService(debts, flags),
   totalComision       |-> TotalCommission(debts, flags),
   totalGeneral        |-> TotalGeneral(debts, flags),
   deudasSeleccionadas |-> FilterSelected(debts, flags)]

\* a toggle that writes the one flag and does not cascade
ToggleDeudaSingle(flags, index, checked) ==
  [k \in 1..Len(flags) |-> IF k = index + 1 THEN checked ELSE flags[k]]

\* a cascade that stops one row short when checking
ToggleDeudaShort(flags, index, checked) ==
  IF checked
  THEN [k \in 1..Len(flags) |-> IF k <= index THEN TRUE ELSE flags[k]]
  ELSE [k \in 1..Len(flags) |-> IF k >= index + 1 THEN FALSE ELSE flags[k]]

\* toggleDeuda(index, checked): cascading selection over a copy of the flags.
\* Writing selectedDebts[i] beyond the array's end extends the array.
ToggleDeudaFlags(flags, index, checked) ==
  IF checked
  THEN [k \in 1..(IF index + 1 > Len(flags) THEN index + 1 ELSE Len(flags)) |->
          IF k <= index + 1 THEN TRUE ELSE flags[k]]
  ELSE [k \in 1..Len(flags) |-> IF k >= index + 1 THEN FALSE ELSE flags[k]]

\* toggleTodasDeudas(checked): outstandingDebts().map(() => checked)
ToggleTodasFlags(debts, checked) == [k \in 1..Len(debts) |-> checked]

(***************************************************************************)
(* ConfirmationModalService                                                *)
(***************************************************************************)
ConfirmHidden ==
  [visible |-> FALSE, resolver |-> Null, tracked |-> FALSE, superseded |-> << >>]

NoNav == [path |-> "none", alias |-> ""]
Nav(path, alias) == [path |-> path, alias |-> alias]

(***************************************************************************)
(* CobranzaWizardComponent: state machine                                  *)
(***************************************************************************)
DwLive == route = "servicio"

\* the component's fields as constructed
DwConstructed ==
  /\ config = Null
  /\ dwCurrentStep = 1
  /\ dwErrors = << >>
  /\ codigoDeuda = Str0
  /\ contracts = << >>
  /\ selectedContract = Null
  /\ outstandingDebts = << >>
  /\ selectedDebts = << >>
  /\ associateData = Null

DwConstructedNext ==
  /\ config' = Null
  /\ dwCurrentStep' = 1
  /\ dwErrors' = << >>
  /\ codigoDeuda' = Str0
  /\ contracts' = << >>
  /\ selectedContract' = Null
  /\ outstandingDebts' = << >>
  /\ selectedDebts' = << >>
  /\ associateData' = Null

Call(kind, data) == [kind |-> kind, live |-> TRUE, data |-> data]

\* handleApiError of the wizard
DwHandleApiError(error, fallbackMessage) ==
  LET h == HandleHttpError(errorModal, error)
  IN /\ errorModal' = h.modal
     /\ dwErrors' = IF h.ret THEN dwErrors ELSE Append(dwErrors, fallbackMessage)

\* showInactiveServiceModal
InactiveServiceModal ==
  Show("error", [code |-> "ERR_SERVICE_INACTIVE", redirectToMain |-> TRUE])

\* checkServiceStatusAndLoadConfig: the checkServiceStatus response through
\* switchMap / tap (loadServicioConfig) / catchError / finalize
StatusResponse(i, resp) ==
  /\ i \in DOMAIN dwPending
  /\ dwPending[i].kind = "status"
  /\ dwPending[i].live
  /\ dwLoading' = FALSE
  /\ CASE resp = "active" ->
            /\ dwPending' = [dwPending EXCEPT ![i] = Call("config", aliasServicio)]
            /\ UNCHANGED <<errorModal, dwErrors>>
       [] resp \in {"inactive", "invalid"} ->
            /\ dwPending' = RemoveAt(dwPending, i)
            /\ errorModal' = InactiveServiceModal
            /\ UNCHANGED dwErrors
       [] OTHER ->
            /\ dwPending' = RemoveAt(dwPending, i)
            /\ DwHandleApiError(resp, "Error al verificar estado del servicio")
  /\ UNCHANGED <<fpVars, cartVars, ckVars, aliasServicio, config, dwCurrentStep,
                 codigoDeuda, contracts, selectedContract, outstandingDebts,
                 selectedDebts, associateData, confirmModal, navVars>>

\* a backend response: success with data, success=false / no data, an error
OkResp(data) == [kind |-> "ok", data |-> data]
FailResp     == [kind |-> "fail"]
ErrResp(e)   == [kind |-> "error", error |-> e]

\* loadServicioConfig: the getServiceConfig response
ConfigResponse(i, resp) ==
  /\ i \in DOMAIN dwPending
  /\ dwPending[i].kind = "config"
  /\ dwPending[i].live
  /\ dwPending' = RemoveAt(dwPending, i)
  /\ CASE resp.kind = "fail" ->
            /\ dwErrors' = Append(dwErrors, "Servicio no encontrado")
            /\ dwLoading' = FALSE
            /\ UNCHANGED <<config, errorModal, navTarget>>
       [] resp.kind = "error" ->
            /\ DwHandleApiError(resp.error, "Error al cargar configuracion del servicio")
            /\ dwLoading' = FALSE
            /\ UNCHANGED <<config, navTarget>>
       [] OTHER ->
            IF resp.data.formaOperaciones # "C"
            THEN /\ navTarget' = Nav("proximamente", aliasServicio)
                 /\ UNCHANGED <<config, dwLoading, dwErrors, errorModal>>
            ELSE /\ config' = resp.data
                 /\ dwLoading' = FALSE
                 /\ UNCHANGED <<dwErrors, errorModal, navTarget>>
  /\ UNCHANGED <<fpVars, cartVars, ckVars, aliasServicio, dwCurrentStep,
                 codigoDeuda, contracts, selectedContract, outstandingDebts,
                 selectedDebts, associateData, confirmModal, route>>

\* the user types into searchForm.codigoDeuda
SetCodigoDeuda(value) ==
  /\ DwLive
  /\ codigoDeuda # value
  /\ codigoDeuda' = value
  /\ UNCHANGED <<fpVars, cartVars, ckVars, aliasServicio, config, dwCurrentStep,
                 dwLoading, dwErrors, contracts, selectedContract,
                 outstandingDebts, selectedDebts, associateData, dwPending,
                 modalVars, navVars>>

\* consultContracts up to the backend call
ConsultContracts ==
  /\ DwLive
  /\ IF dwLoading
     THEN UNCHANGED <<dwLoading, dwErrors, dwPending>>
     ELSE IF Trim(codigoDeuda) = Str0
     THEN /\ Room(dwErrors, dwPending)
          /\ dwErrors' = Append(dwErrors, "Ingrese el codigo de socio")
          /\ UNCHANGED <<dwLoading, dwPending>>
     ELSE /\ Len(dwPending) < MaxInFlight
          /\ Room(<< >>, dwPending)
          /\ dwLoading' = TRUE
          /\ dwErrors' = << >>
          /\ dwPending' = Append(dwPending, Call("contracts", codigoDeuda))
  /\ UNCHANGED <<fpVars, cartVars, ckVars, aliasServicio, config, dwCurrentStep,
                 codigoDeuda, contracts, selectedContract, outstandingDebts,
                 selectedDebts, associateData, modalVars, navVars>>

\* the consultCollectionContracts response through switchMap / catchError /
\* finalize; resp.data is the contratosAsociado list
ContractsResponse(i, resp) ==
  /\ i \in DOMAIN dwPending
  /\ dwPending[i].kind = "contracts"
  /\ dwPending[i].live
  /\ CASE resp.kind = "fail" \/ (resp.kind = "ok" /\ Len(resp.data) = 0) ->
            /\ dwErrors' = Append(dwErrors, "No se encontraron contratos")
            /\ dwPending' = RemoveAt(dwPending, i)
            /\ dwLoading' = FALSE
            /\ UNCHANGED <<contracts, selectedContract, dwCurrentStep, errorModal>>
       [] resp.kind = "error" ->
            /\ DwHandleApiError(resp.error, "Error al consultar contratos")
            /\ dwPending' = RemoveAt(dwPending, i)
            /\ dwLoading' = FALSE
            /\ UNCHANGED <<contracts, selectedContract, dwCurrentStep>>
       [] OTHER ->
            /\ contracts' = resp.data
            /\ IF Len(resp.data) = 1
               THEN /\ selectedContract' = resp.data[1]
                    /\ dwPending' = [dwPending EXCEPT ![i] =
                          Call("debts", [contract |-> resp.data[1], chain |-> "consult"])]
                    /\ UNCHANGED <<dwCurrentStep, dwLoading>>
               ELSE /\ dwCurrentStep' = 2
                    /\ dwPending' = RemoveAt(dwPending, i)
                    /\ dwLoading' = FALSE
                    /\ UNCHANGED selectedContract
            /\ UNCHANGED <<dwErrors, errorModal>>
  /\ UNCHANGED <<fpVars, cartVars, ckVars, aliasServicio, config, codigoDeuda,
                 outstandingDebts, selectedDebts, associateData, confirmModal,
                 navVars>>

\* selectContract(contract)
SelectContract(contract) ==
  /\ DwLive
  /\ selectedContract' = contract
  /\ UNCHANGED <<fpVars, cartVars, ckVars, aliasServicio, config, dwCurrentStep,
                 dwLoading, dwErrors, codigoDeuda, contracts, outstandingDebts,
                 selectedDebts, associateData, dwPending, modalVars, navVars>>

\* a confirmContract that queries the debts without looking at the selection
ConfirmContractUnchecked ==
  /\ DwLive
  /\ Len(dwPending) < MaxInFlight
  /\ Room(<< >>, dwPending)
  /\ dwLoading' = TRUE
  /\ dwErrors' = << >>
  /\ dwPending' = Append(dwPending,
        Call("debts", [contract |-> selectedContract, chain |-> "confirm"]))
  /\ UNCHANGED <<fpVars, cartVars, ckVars, aliasServicio, config, dwCurrentStep,
                 codigoDeuda, contracts, selectedContract, outstandingDebts,
                 selectedDebts, associateData, modalVars, navVars>>

\* confirmContract up to the backend call
ConfirmContract ==
  /\ DwLive
  /\ IF selectedContract = Null
     THEN /\ Room(dwErrors, dwPending)
          /\ dwErrors' = Append(dwErrors, "Seleccione un contrato")
          /\ UNCHANGED <<dwLoading, dwPending>>
     ELSE /\ Len(dwPending) < MaxInFlight
          /\ Room(<< >>, dwPending)
          /\ dwLoading' = TRUE
          /\ dwErrors' = << >>
          /\ dwPending' = Append(dwPending,
                Call("debts", [contract |-> selectedContract, chain |-> "confirm"]))
  /\ UNCHANGED <<fpVars, cartVars, ckVars, aliasServicio, config, dwCurrentStep,
                 codigoDeuda, contracts, selectedContract, outstandingDebts,
                 selectedDebts, associateData, modalVars, navVars>>

\* consultDebts$: the consultCollectionDebts response through tap, then the
\* caller's catchError / finalize; resp.data is the pagosPendientes list
DebtsResponse(i, resp) ==
  /\ i \in DOMAIN dwPending
  /\ dwPending[i].kind = "debts"
  /\ dwPending[i].live
  /\ dwPending' = RemoveAt(dwPending, i)
  /\ dwLoading' = FALSE
  /\ CASE resp.kind = "fail" ->
            /\ outstandingDebts' = << >>
            /\ selectedDebts' = << >>
            /\ dwCurrentStep' = 3
            /\ UNCHANGED <<associateData, dwErrors, errorModal>>
       [] resp.kind = "error" ->
            /\ DwHandleApiError(resp.error,
                 IF dwPending[i].data.chain = "consult"
                 THEN "Error al consultar contratos"
                 ELSE "Error al consultar deudas")
            /\ UNCHANGED <<outstandingDebts, selectedDebts, dwCurrentStep,
                           associateData>>
       [] OTHER ->
            /\ outstandingDebts' = resp.data
            /\ associateData' = dwPending[i].data.contract.datosAsociado
            /\ selectedDebts' = [k \in 1..Len(resp.data) |-> TRUE]
            /\ dwCurrentStep' = 3
            /\ UNCHANGED <<dwErrors, errorModal>>
  /\ UNCHANGED <<fpVars, cartVars, ckVars, aliasServicio, config, codigoDeuda,
                 contracts, selectedContract, confirmModal, navVars>>

\* toggleDeuda(index, checked)
ToggleDeuda(index, checked) ==
  /\ DwLive
  /\ selectedDebts' = ToggleDeudaFlags(selectedDebts, index, checked)
  /\ UNCHANGED <<fpVars, cartVars, ckVars, aliasServicio, config, dwCurrentStep,
                 dwLoading, dwErrors, codigoDeuda, contracts, selectedContract,
                 outstandingDebts, associateData, dwPending, modalVars, navVars>>

\* toggleTodasDeudas(checked)
ToggleTodasDeudas(checked) ==
  /\ DwLive
  /\ selectedDebts' = ToggleTodasFlags(outstandingDebts, checked)
  /\ UNCHANGED <<fpVars, cartVars, ckVars, aliasServicio, config, dwCurrentStep,
                 dwLoading, dwErrors, codigoDeuda, contracts, selectedContract,
                 outstandingDebts, associateData, dwPending, modalVars, navVars>>

\* a prevStep that is not clamped at step 1
DwPrevStepUnclamped ==
  /\ DwLive
  /\ dwErrors' = << >>
  /\ dwCurrentStep' = dwCurrentStep - 1
  /\ UNCHANGED <<fpVars, cartVars, ckVars, aliasServicio, config, dwLoading,
                 codigoDeuda, contracts, selectedContract, outstandingDebts,
                 selectedDebts, associateData, dwPending, modalVars, navVars>>

\* prevStep of the wizard
DwPrevStep ==
  /\ DwLive
  /\ IF dwCurrentStep > 1
     THEN /\ dwErrors' = << >>
          /\ dwCurrentStep' = dwCurrentStep - 1
     ELSE UNCHANGED <<dwErrors, dwCurrentStep>>
  /\ UNCHANGED <<fpVars, cartVars, ckVars, aliasServicio, config, dwLoading,
                 codigoDeuda, contracts, selectedContract, outstandingDebts,
                 selectedDebts, associateData, dwPending, modalVars, navVars>>

\* addToCart up to its first suspension point (await confirm) or its end
AddToCart ==
  LET cv  == CanAddItemWithCurrency(cart, config.abreviacionMoneda)
      dup == FindDuplicateIndex(cart, config.aliasServicio,
                                selectedContract.codigoContrato)
      outcome ==
        IF QuantitySelectedDebts(selectedDebts) = 0 THEN "noneSelected"
        ELSE IF selectedContract = Null \/ associateData = Null \/ config = Null
          THEN "incomplete"
        ELSE IF ~cv.canAdd THEN "currency"
        ELSE IF dup # -1 THEN "awaitConfirm"
        ELSE "added"
  IN
  /\ DwLive
  /\ CASE outcome = "noneSelected" ->
            /\ Room(dwErrors, dwPending)
            /\ dwErrors' = Append(dwErrors, "Seleccione al menos una deuda")
            /\ UNCHANGED <<cartVars, modalVars, navTarget>>
       [] outcome = "incomplete" ->
            /\ Room(dwErrors, dwPending)
            /\ dwErrors' = Append(dwErrors, "Datos incompletos")
            /\ UNCHANGED <<cartVars, modalVars, navTarget>>
       [] outcome = "currency" ->
            /\ errorModal' = Show("warning", [code |-> "WARN_CURRENCY",
                                               redirectToMain |-> FALSE])
            /\ UNCHANGED <<cartVars, dwErrors, confirmModal, navTarget>>
       [] outcome = "awaitConfirm" ->
            /\ Len(dwErrors) < MaxErrors
            /\ (confirmModal.tracked /\ confirmModal.resolver # Null) =>
                  Len(confirmModal.superseded) < MaxSuperseded
            /\ confirmModal' =
                 [visible  |-> TRUE,
                  tracked  |-> confirmModal.tracked,
                  resolver |-> [live             |-> TRUE,
                                selectedContract |-> selectedContract,
                                associateData    |-> associateData,
                                cfg              |-> config,
                                duplicateIndex   |-> dup,
                                frozen           |-> Null],
                  superseded |-> IF confirmModal.tracked
                                    /\ confirmModal.resolver # Null
                                 THEN Append(confirmModal.superseded,
                                             confirmModal.resolver)
                                 ELSE confirmModal.superseded]
            /\ UNCHANGED <<cartVars, dwErrors, errorModal, navTarget>>
       [] OTHER ->
            LET r == AddItem(Store, BuildItem(config, selectedContract,
                               associateData, outstandingDebts, selectedDebts))
            IN /\ SetStore(r.st)
               /\ IF r.ret
                  THEN /\ navTarget' = Nav("carrito", "")
                       /\ UNCHANGED dwErrors
                  ELSE /\ dwErrors' = Append(dwErrors, "Error al agregar al carrito")
                       /\ UNCHANGED navTarget
               /\ UNCHANGED modalVars
  /\ UNCHANGED <<fpVars, ckVars, aliasServicio, config, dwCurrentStep, dwLoading,
                 codigoDeuda, contracts, selectedContract, outstandingDebts,
                 selectedDebts, associateData, dwPending, route>>

\* a handleConfirm over a queue of resolvers: it resolves the oldest pending
\* promise
HandleConfirmOldest ==
  LET q == confirmModal.superseded
      r == IF q # << >> THEN q[1] ELSE confirmModal.resolver
      rep == ReplaceItem(Store, r.duplicateIndex,
               BuildItem(r.cfg, r.selectedContract, r.associateData,
                         outstandingDebts, selectedDebts))
  IN
  /\ confirmModal.visible
  /\ confirmModal' = IF q # << >>
                     THEN [confirmModal EXCEPT !.visible = FALSE,
                                               !.superseded = Tail(q)]
                     ELSE [confirmModal EXCEPT !.visible = FALSE,
                                               !.resolver = Null]
  /\ IF r = Null
     THEN UNCHANGED <<cartVars, dwErrors, navTarget>>
     ELSE /\ SetStore(rep.st)
          /\ IF rep.ret
             THEN /\ navTarget' = Nav("carrito", "")
                  /\ UNCHANGED dwErrors
             ELSE /\ dwErrors' = Append(dwErrors, "Error al agregar al carrito")
                  /\ UNCHANGED navTarget
  /\ UNCHANGED <<fpVars, ckVars, aliasServicio, config, dwCurrentStep, dwLoading,
                 codigoDeuda, contracts, selectedContract, outstandingDebts,
                 selectedDebts, associateData, dwPending, errorModal, route>>

\* handleConfirm: hides the modal and resolves the pending promise with
\* true; the awaiting addToCart then runs to its end
HandleConfirm ==
  LET r == confirmModal.resolver
      debts == IF r.live THEN outstandingDebts ELSE r.frozen.outstandingDebts
      flags == IF r.live THEN selectedDebts ELSE r.frozen.selectedDebts
      rep == ReplaceItem(Store, r.duplicateIndex,
               BuildItem(r.cfg, r.selectedContract, r.associateData, debts, flags))
  IN
  /\ confirmModal.visible
  /\ confirmModal' = [confirmModal EXCEPT !.visible = FALSE, !.resolver = Null]
  /\ IF r = Null
     THEN UNCHANGED <<cartVars, dwErrors, navTarget>>
     ELSE /\ SetStore(rep.st)
          /\ IF rep.ret
             THEN /\ navTarget' = Nav("carrito", "")
                  /\ UNCHANGED dwErrors
             ELSE /\ dwErrors' = IF r.live
                                 THEN Append(dwErrors, "Error al agregar al carrito")
                                 ELSE dwErrors
                  /\ UNCHANGED navTarget
  /\ UNCHANGED <<fpVars, ckVars, aliasServicio, config, dwCurrentStep, dwLoading,
                 codigoDeuda, contracts, selectedContract, outstandingDebts,
                 selectedDebts, associateData, dwPending, errorModal, route>>

\* handleCancel: hides the modal and resolves the pending promise with
\* false; the awaiting addToCart returns
HandleCancel ==
  /\ confirmModal.visible
  /\ confirmModal' = [confirmModal EXCEPT !.visible = FALSE, !.resolver = Null]
  /\ UNCHANGED <<fpVars, cartVars, ckVars, dwVars, errorModal, navVars>>

\* ErrorModalService.hide: closes the modal, redirecting home when the
\* displayed configuration says so
ErrorModalHide ==
  /\ errorModal.visible
  /\ errorModal' = [errorModal EXCEPT !.visible = FALSE]
  /\ navTarget' = IF errorModal.redirectToMain THEN Nav("home", "") ELSE navTarget
  /\ UNCHANGED <<fpVars, cartVars, ckVars, dwVars, confirmModal, route>>

(***************************************************************************)
(* Router: components are destroyed and constructed as the route changes.  *)
(* A destroyed component's subscriptions and promises are not cancelled:   *)
(* its pending entries stay, marked live = FALSE, and their completion can *)
(* only touch the injected singletons (cart, modals, router).              *)
(***************************************************************************)
Orphaned(pending) == [k \in DOMAIN pending |-> [pending[k] EXCEPT !.live = FALSE]]

\* the destroyed checkout keeps the snapshot its fingerprint promise will read
CkOrphaned(pending, items) ==
  [k \in DOMAIN pending |->
     IF pending[k].kind = "fp" /\ pending[k].live
     THEN [kind |-> "fp", live |-> FALSE,
           data |-> [medioPago         |-> pending[k].data.medioPago,
                     correoElectronico |-> pending[k].data.correoElectronico,
                     cached            |-> pending[k].data.cached,
                     components        |-> pending[k].data.components,
                     itemsCart         |-> items]]
     ELSE [pending[k] EXCEPT !.live = FALSE]]

CkDestroyedNext ==
  /\ ckCurrentStep' = 1
  /\ ckLoading' = FALSE
  /\ ckErrors' = << >>
  /\ itemsCart' = << >>
  /\ form' = FormInit
  /\ qrData' = QrEmpty
  /\ showExceptionNIT' = FALSE
  /\ ckPending' = CkOrphaned(ckPending, itemsCart)

\* constructor + ngOnInit (loadCart) of a new CheckoutWizardComponent
CkMountNext ==
  /\ ckCurrentStep' = 1
  /\ ckLoading' = FALSE
  /\ ckErrors' = << >>
  /\ itemsCart' = Items(cart)
  /\ form' = LoadCartForm(Items(cart))
  /\ qrData' = QrEmpty
  /\ showExceptionNIT' = FALSE
  /\ ckPending' = Orphaned(ckPending)

DwDestroyedNext ==
  /\ DwConstructedNext
  /\ aliasServicio' = ""
  /\ dwLoading' = FALSE
  /\ dwPending' = Orphaned(dwPending)

\* the pending addToCart of a destroyed wizard keeps what it will read
ResolverOrphaned(r) ==
  IF r # Null /\ r.live
  THEN [r EXCEPT !.live = FALSE,
                 !.frozen = [outstandingDebts |-> outstandingDebts,
                             selectedDebts    |-> selectedDebts]]
  ELSE r

\* constructor + ngOnInit (paramMap -> checkServiceStatusAndLoadConfig)
DwMountNext(alias) ==
  /\ DwConstructedNext
  /\ aliasServicio' = alias
  /\ dwLoading' = TRUE
  /\ dwPending' = Append(Orphaned(dwPending), Call("status", alias))

\* a link, the browser's back button, goToHome, exitCart, addMoreServices
Navigate(target) ==
  /\ navTarget # target
  /\ target.path # route \/ target.alias # (IF DwLive THEN aliasServicio ELSE "")
  /\ navTarget' = target
  /\ UNCHANGED <<fpVars, cartVars, ckVars, dwVars, modalVars, route>>

\* the requested navigation ends
NavigationEnd ==
  /\ navTarget # NoNav
  /\ navTarget' = NoNav
  /\ route' = navTarget.path
  /\ IF navTarget.path = route
     THEN \* same route: the component is reused
          /\ UNCHANGED <<ckVars, confirmModal>>
          /\ IF route = "servicio" /\ navTarget.alias # aliasServicio
             THEN \* paramMap emits again: checkServiceStatusAndLoadConfig
                  /\ Len(dwPending) < MaxInFlight
                  /\ Room(dwErrors, dwPending)
                  /\ aliasServicio' = navTarget.alias
                  /\ dwLoading' = TRUE
                  /\ dwPending' = Append(dwPending, Call("status", navTarget.alias))
                  /\ UNCHANGED <<config, dwCurrentStep, dwErrors, codigoDeuda,
                                 contracts, selectedContract, outstandingDebts,
                                 selectedDebts, associateData>>
             ELSE UNCHANGED dwVars
     ELSE /\ IF route = "carrito" THEN CkDestroyedNext
             ELSE IF navTarget.path = "carrito" THEN CkMountNext
             ELSE UNCHANGED ckVars
          /\ IF route = "servicio"
             THEN /\ DwDestroyedNext
                  /\ confirmModal' = [confirmModal EXCEPT
                                        !.resolver = ResolverOrphaned(@)]
             ELSE IF navTarget.path = "servicio"
             THEN /\ Len(dwPending) < MaxInFlight
                  /\ DwMountNext(navTarget.alias)
                  /\ UNCHANGED confirmModal
             ELSE UNCHANGED <<dwVars, confirmModal>>
  /\ UNCHANGED <<fpVars, cartVars, errorModal>>

\* a call of a destroyed CobranzaWizardComponent completes
DwOrphanResponse(i, effect) ==
  /\ i \in DOMAIN dwPending
  /\ ~dwPending[i].live
  /\ dwPending' = RemoveAt(dwPending, i)
  /\ CASE effect = "none" -> UNCHANGED errorModal
       [] effect = "inactive" ->
            /\ dwPending[i].kind = "status"
            /\ errorModal' = InactiveServiceModal
       [] OTHER ->
            /\ effect \in ErrorTypes
            /\ errorModal' = HandleHttpError(errorModal, effect).modal
  /\ UNCHANGED <<fpVars, cartVars, ckVars, aliasServicio, config, dwCurrentStep,
                 dwLoading, dwErrors, codigoDeuda, contracts, selectedContract,
                 outstandingDebts, selectedDebts, associateData, confirmModal,
                 navVars>>

\* a call or promise of a destroyed CheckoutWizardComponent completes
CkOrphanResponse(i, resp) ==
  /\ i \in DOMAIN ckPending
  /\ ~ckPending[i].live
  /\ CASE ckPending[i].kind = "fp" ->
            LET d == ckPending[i].data
                fp == IF d.cached # "" THEN d.cached
                      ELSE HashComponents(d.components, {})
            IN /\ resp = "success"
               /\ fpCache' = IF d.cached = ""
                              THEN [fingerprint |-> fp, timestamp |-> now]
                              ELSE fpCache
               /\ fingerprint' = IF d.cached = "" THEN fp ELSE fingerprint
               /\ ckPending' = [ckPending EXCEPT ![i] =
                    [kind |-> "pay", live |-> FALSE,
                     data |-> [medioPago          |-> d.medioPago,
                               itemsCarrito       |-> d.itemsCart,
                               totalGeneral       |-> CkTotalGeneral(d.itemsCart),
                               correoElectronico  |-> d.correoElectronico,
                               browserFingerprint |-> fp]]]
               /\ UNCHANGED <<cartVars, errorModal>>
       [] ckPending[i].kind = "pay" /\ resp = "success" ->
            /\ ckPending' = RemoveAt(ckPending, i)
            /\ SetStore(ClearCart(Store))
            /\ UNCHANGED <<errorModal, fpCache, fingerprint>>
       [] OTHER ->
            /\ ckPending' = RemoveAt(ckPending, i)
            /\ errorModal' = HandleHttpError(errorModal, resp).modal
            /\ UNCHANGED <<cartVars, fpCache, fingerprint>>
  /\ UNCHANGED <<now, ckCurrentStep, ckLoading, ckErrors, itemsCart, form, qrData,
                 showExceptionNIT, dwVars, confirmModal, navVars>>

(***************************************************************************)
(* Backend data the model draws from                                       *)
(***************************************************************************)
Cfg(alias, moneda, forma) ==
  [aliasServicio |-> alias, abreviacionMoneda |-> moneda, formaOperaciones |-> forma]
CfgBs  == Cfg("s1", "Bs.", "C")
CfgUsd == Cfg("s2", "USD.", "C")

Contrato(code, email) ==
  [codigoContrato |-> code,
   datosAsociado  |-> [nombreAsociado |-> code, correoElectronico |-> email]]
Contrato1 == Contrato("c1", EmailGood)
Contrato2 == Contrato("c2", Str0)

\* the k-th period of a debt list, oldest first: 10.00 * k of service, and
\* 0.25 * (k - 1) of commission (none on the first)
DebtAt(k) == Deuda(k, 10000 * k, 250 * (k - 1))
DebtList(n) == [k \in 1..n |-> DebtAt(k)]
AllSelected(n) == [k \in 1..n |-> TRUE]

\* an item as addToCart builds it from the first n periods of a contract
ItemFor(cfg, contract, n) ==
  BuildItem(cfg, contract, contract.datosAsociado, DebtList(n), AllSelected(n))

CartOf(items) ==
  IF items = << >> THEN Null ELSE [sessionId |-> "sid1", items |-> items]

(***************************************************************************)
(* Specification of the checkout wizard: the component has just been       *)
(* constructed over a cart the collection wizard filled.                   *)
(***************************************************************************)
CheckoutCarts ==
  {<<ItemFor(CfgBs, Contrato1, 1)>>,
   <<ItemFor(CfgBs, Contrato1, 2)>>,
   <<ItemFor(CfgBs, Contrato2, 1), ItemFor(CfgBs, Contrato1, 2)>>}

DwUnmounted ==
  /\ DwConstructed
  /\ aliasServicio = ""
  /\ dwLoading = FALSE
  /\ dwPending = << >>

InitCheckout ==
  /\ \E items \in {its \in CheckoutCarts \cup {<< >>} : Len(its) <= MaxItems} :
        /\ cart = CartOf(items)
        /\ storedCart = CartOf(items)
        /\ storedSession = IF items = << >> THEN NoSession ELSE "sid1"
        /\ CkMount(items)
  /\ DwUnmounted
  /\ errorModal = ModalHidden
  /\ confirmModal = ConfirmHidden
  /\ route = "carrito"
  /\ navTarget = NoNav
  /\ fpCache = Null
  /\ fingerprint = ""
  /\ now = 0

NextCheckout ==
  \/ HandleProcessPaymentClick
  \/ HandleNextStep
  \/ CkPrevStep
  \/ \E index \in -1..MaxItems : CkRemoveItem(index)
  \/ \E v \in {"Q", "T"} : SetFormField("medioPago", v)
  \/ \E v \in {NitOther} : SetFormField("documentoSIN", v)
  \/ \E i \in 1..MaxInFlight : \E resp \in {"valid", "invalid", "plain"} :
        NitResponse(i, resp)
  \/ ProcessPayment({})
  \/ \E i \in 1..MaxInFlight : \E env \in {{}, {"digest"}} :
        FingerprintResolved(i, env)
  \/ \E i \in 1..MaxInFlight : \E resp \in {"success", "failure", "plain", "warning"} :
        PaymentResponse(i, resp)

SpecCheckout == InitCheckout /\ [][NextCheckout]_vars

(***************************************************************************)
(* Specification of the checkout's billing step: the same component, with  *)
(* the user editing every control of the billing form (an e-mail that is   *)
(* empty, malformed or well-formed; named or unnamed billing; document     *)
(* type NIT or another; the NIT exception) and without payment submission. *)
(***************************************************************************)
NextBilling ==
  \/ HandleProcessPaymentClick
  \/ HandleNextStep
  \/ CkPrevStep
  \/ SetFormField("medioPago", "Q")
  \/ \E v \in {Str0, <<"a">>, EmailGood} : SetFormField("correoElectronico", v)
  \/ \E v \in {NitOther, Nit99001, Nit99003} : SetFormField("documentoSIN", v)
  \/ \E v \in {1, 5} : SetFormField("tipoDocumento", v)
  \/ \E v \in {"true", "false"} : SetFormField("excepcionNIT", v)
  \/ \E unNamed \in BOOLEAN : ChangeBillingDataMode(unNamed)
  \/ \E i \in 1..MaxInFlight : \E resp \in {"valid", "invalid", "plain"} :
        NitResponse(i, resp)

SpecBilling == InitCheckout /\ [][NextBilling]_vars

(***************************************************************************)
(* Specification of the payment submission: the checkout component walked  *)
(* to its last step, payments submitted and answered, time passing, and    *)
(* every call of the fingerprint service made with nothing failing or with *)
(* one thing failing.                                                      *)
(***************************************************************************)
\* a minute passes
Tick ==
  /\ now < MaxClock
  /\ now' = now + 1
  /\ UNCHANGED <<cartVars, ckVars, dwVars, modalVars, navVars, fpCache,
                 fingerprint>>

NextPayment ==
  \/ HandleNextStep
  \/ SetFormField("medioPago", "Q")
  \/ \E f \in {"none", "get", "remove", "canvas", "webgl", "screen"} :
        ProcessPayment({f})
  \/ \E i \in 1..MaxInFlight : \E f \in {"none", "set", "digest"} :
        FingerprintResolved(i, {f})
  \/ \E i \in 1..MaxInFlight : \E resp \in {"success", "failure"} :
        PaymentResponse(i, resp)
  \/ Tick

SpecPayment == InitCheckout /\ [][NextPayment]_vars

(***************************************************************************)
(* Specification of the collection wizard: the component has just been     *)
(* constructed (ngOnInit has issued checkServiceStatus) over a cart that   *)
(* earlier visits filled.  The specification follows the wizard until it   *)
(* requests a navigation (to the cart, home or the placeholder page): the  *)
(* router then tears the component down.                                   *)
(***************************************************************************)
Codigo1 == <<"7">>

Range(s) == {s[k] : k \in DOMAIN s}

\* the configuration the backend holds for an alias
CfgOf(alias) == IF alias = "s2" THEN CfgUsd ELSE CfgBs

\* the service the wizard is entered for and the cart it finds: an empty
\* cart, a cart that holds the contract the wizard will submit, and a cart
\* in another currency than the service's
DebtEntries ==
  {[alias |-> "s1", items |-> << >>],
   [alias |-> "s1", items |-> <<ItemFor(CfgBs, Contrato2, 1),
                                ItemFor(CfgBs, Contrato1, 3)>>],
   [alias |-> "s2", items |-> <<ItemFor(CfgBs, Contrato1, 1)>>]}

CkUnmounted ==
  /\ ckCurrentStep = 1
  /\ ckLoading = FALSE
  /\ ckErrors = << >>
  /\ itemsCart = << >>
  /\ form = FormInit
  /\ qrData = QrEmpty
  /\ showExceptionNIT = FALSE
  /\ ckPending = << >>

\* constructor + ngOnInit of the wizard under /servicio/:alias
DwMount(alias) ==
  /\ DwConstructed
  /\ aliasServicio = alias
  /\ dwLoading = TRUE
  /\ dwPending = <<Call("status", alias)>>

InitDebt ==
  /\ \E e \in {d \in DebtEntries : Len(d.items) <= MaxItems} :
        /\ cart = CartOf(e.items)
        /\ storedCart = CartOf(e.items)
        /\ storedSession = IF e.items = << >> THEN NoSession ELSE "sid1"
        /\ DwMount(e.alias)
  /\ CkUnmounted
  /\ errorModal = ModalHidden
  /\ confirmModal = ConfirmHidden
  /\ route = "servicio"
  /\ navTarget = NoNav
  /\ fpCache = Null
  /\ fingerprint = ""
  /\ now = 0

\* the wizard is on screen and has requested no navigation away from it
Staying == navTarget = NoNav

NextDebt ==
  \/ Staying /\ \E i \in 1..MaxInFlight : \E resp \in {"active", "inactive"} :
        StatusResponse(i, resp)
  \/ Staying /\ \E i \in 1..MaxInFlight :
        ConfigResponse(i, OkResp(CfgOf(aliasServicio)))
  \/ Staying /\ SetCodigoDeuda(Codigo1)
  \/ Staying /\ ConsultContracts
  \/ Staying /\ \E i \in 1..MaxInFlight :
        \E resp \in {OkResp(<<Contrato1>>), OkResp(<<Contrato1, Contrato2>>),
                     ErrResp("plain")} :
           ContractsResponse(i, resp)
  \/ Staying /\ \E c \in Range(contracts) : SelectContract(c)
  \/ Staying /\ ConfirmContract
  \/ Staying /\ \E i \in 1..MaxInFlight :
        \E resp \in {OkResp(DebtList(n)) : n \in {0, MaxDebts}} \cup {FailResp} :
           DebtsResponse(i, resp)
  \/ Staying /\ \E index \in 0..(Len(outstandingDebts) - 1) :
        \E checked \in BOOLEAN : ToggleDeuda(index, checked)
  \/ Staying /\ \E checked \in BOOLEAN : ToggleTodasDeudas(checked)
  \/ Staying /\ DwPrevStep
  \/ Staying /\ AddToCart
  \/ Staying /\ HandleConfirm
  \/ Staying /\ HandleCancel
  \/ Staying /\ ErrorModalHide

SpecDebt == InitDebt /\ [][NextDebt]_vars

(***************************************************************************)
(* Specification of the wizard's search: steps 1 to 3 over an empty cart,  *)
(* with every kind of backend answer.  The search form is the view of step *)
(* 1 and the contract list the view of step 2, so consultContracts is      *)
(* called on step 1 and selectContract / confirmContract on step 2.        *)
(***************************************************************************)
CodigoBlank == <<" ">>

InitSearch == InitDebt /\ cart = Null

NextSearch ==
  \/ Staying /\ \E i \in 1..MaxInFlight : \E resp \in {"active", "inactive"} :
        StatusResponse(i, resp)
  \/ Staying /\ \E i \in 1..MaxInFlight :
        \E resp \in {OkResp(CfgOf(aliasServicio)), FailResp} : ConfigResponse(i, resp)
  \/ Staying /\ dwCurrentStep = 1 /\ \E v \in {Codigo1, CodigoBlank} : SetCodigoDeuda(v)
  \/ Staying /\ dwCurrentStep = 1 /\ ConsultContracts
  \/ Staying /\ \E i \in 1..MaxInFlight :
        \E resp \in {OkResp(<< >>), OkResp(<<Contrato1>>),
                     OkResp(<<Contrato1, Contrato2>>), FailResp}
                    \cup {ErrResp(e) : e \in ApiErrors} :
           ContractsResponse(i, resp)
  \/ Staying /\ dwCurrentStep = 2 /\ \E c \in Range(contracts) : SelectContract(c)
  \/ Staying /\ dwCurrentStep = 2 /\ ConfirmContract
  \/ Staying /\ \E i \in 1..MaxInFlight :
        \E resp \in {OkResp(DebtList(0)), OkResp(DebtList(MaxDebts)), FailResp,
                     ErrResp("plain")} :
           DebtsResponse(i, resp)
  \/ Staying /\ DwPrevStep
  \/ Staying /\ ErrorModalHide

SpecSearch == InitSearch /\ [][NextSearch]_vars

(***************************************************************************)
(* Specification of the wizard's entry gate.  The backend knows three      *)
(* services: s1 is active and of the collection type, s2 is inactive, s3   *)
(* is active and of another type.  The wizard is entered for s1 over an    *)
(* empty cart and the user moves between the three services' pages (a      *)
(* link, the browser's history): the router reuses the component and       *)
(* paramMap emits the new alias.                                           *)
(***************************************************************************)
NextGate ==
  \/ \E i \in DOMAIN dwPending :
        StatusResponse(i, IF dwPending[i].data = "s2" THEN "inactive" ELSE "active")
  \/ \E i \in DOMAIN dwPending :
        ConfigResponse(i, OkResp(IF dwPending[i].data = "s3"
                                 THEN Cfg("s3", "Bs.", "P")
                                 ELSE CfgOf(dwPending[i].data)))
  \/ SetCodigoDeuda(Codigo1)
  \/ ConsultContracts
  \/ \E i \in 1..MaxInFlight : ContractsResponse(i, OkResp(<<Contrato1>>))
  \/ \E i \in 1..MaxInFlight : DebtsResponse(i, OkResp(DebtList(1)))
  \/ AddToCart
  \/ ErrorModalHide
  \/ \E a \in {"s1", "s2", "s3"} : Navigate(Nav("servicio", a))
  \/ NavigationEnd
  \/ \E i \in 1..MaxInFlight : DwOrphanResponse(i, "none")

InitGate == InitSearch /\ aliasServicio = "s1"

SpecGate == InitGate /\ [][NextGate]_vars

(***************************************************************************)
(* Specification of the Cart Store on its own: its mutating methods called *)
(* directly, in any order, with items of either currency.  No component is *)
(* mounted.                                                                *)
(***************************************************************************)
MaxCartLen == 3    \* longest cart the direct calls build

StoreItems ==
  {ItemFor(CfgBs, Contrato1, 1), ItemFor(CfgBs, Contrato1, 2),
   ItemFor(CfgBs, Contrato2, 1), ItemFor(CfgUsd, Contrato1, 1),
   ItemFor(CfgUsd, Contrato2, 1)}

\* the application has started: the root injector has constructed the
\* CartService
StoreLive == route # "boot"

\* cart.addItem(item)
StoreAddItem(item, io, fresh) ==
  /\ StoreLive
  /\ Len(Items(cart)) < MaxCartLen
  /\ SetStore(AddItem(Env(Store, io, fresh), item).st)
  /\ UNCHANGED <<fpVars, ckVars, dwVars, modalVars, navVars>>

\* cart.removeItem(index)
StoreRemoveItem(index, io) ==
  /\ StoreLive
  /\ SetStore(RemoveItem(Env(Store, io, "sid1"), index))
  /\ UNCHANGED <<fpVars, ckVars, dwVars, modalVars, navVars>>

\* cart.replaceItem(index, newItem)
StoreReplaceItem(index, newItem, io) ==
  /\ StoreLive
  /\ SetStore(ReplaceItem(Env(Store, io, "sid1"), index, newItem).st)
  /\ UNCHANGED <<fpVars, ckVars, dwVars, modalVars, navVars>>

\* cart.clearCart()
StoreClearCart(io) ==
  /\ StoreLive
  /\ SetStore(ClearCart(Env(Store, io, "sid1")))
  /\ UNCHANGED <<fpVars, ckVars, dwVars, modalVars, navVars>>

\* the page is loaded (or reloaded) in the tab: the CartService is
\* constructed, its cart signal null, and the constructor calls loadCart
StoreLoadCart(io) ==
  /\ route \in {"boot", "home"}
  /\ SetStore(LoadCart(Env(StoreOf(Null, storedCart, storedSession), io, "sid1")))
  /\ route' = "home"
  /\ UNCHANGED <<fpVars, ckVars, dwVars, modalVars, navTarget>>

InitCart ==
  /\ cart = Null
  /\ storedCart = Null
  /\ storedSession = NoSession
  /\ CkUnmounted
  /\ DwUnmounted
  /\ errorModal = ModalHidden
  /\ confirmModal = ConfirmHidden
  /\ route = "home"
  /\ navTarget = NoNav
  /\ fpCache = Null
  /\ fingerprint = ""
  /\ now = 0

NextCart ==
  \/ \E item \in StoreItems : StoreAddItem(item, {}, "sid1")
  \/ \E index \in -1..MaxCartLen : StoreRemoveItem(index, {})
  \/ \E index \in -1..MaxCartLen : \E item \in StoreItems :
        StoreReplaceItem(index, item, {})
  \/ StoreClearCart({})

SpecCart == InitCart /\ [][NextCart]_vars

(***************************************************************************)
(* Specification of the Cart Store across page reloads of one tab: its     *)
(* mutating methods called directly with a working sessionStorage, and the *)
(* page reloaded at any moment (a new CartService is constructed over what *)
(* the former one persisted).  One of the items carries no currency        *)
(* abbreviation.                                                           *)
(***************************************************************************)
ReloadItems ==
  {ItemFor(CfgBs, Contrato1, 1), ItemFor(CfgUsd, Contrato2, 1),
   [ItemFor(CfgBs, Contrato2, 2) EXCEPT !.abreviacionMoneda = ""]}

NextReload ==
  \/ \E item \in ReloadItems : StoreAddItem(item, {}, "sid1")
  \/ \E index \in -1..MaxCartLen : StoreRemoveItem(index, {})
  \/ \E index \in -1..MaxCartLen : \E item \in ReloadItems :
        StoreReplaceItem(index, item, {})
  \/ StoreClearCart({})
  \/ StoreLoadCart({})

SpecReload == InitCart /\ [][NextReload]_vars

(***************************************************************************)
(* Specification of the Cart Store over a sessionStorage that may fail:    *)
(* the tab's storage holds anything an earlier page left there, the page   *)
(* is loaded (the constructor runs loadCart), and the store's methods are  *)
(* called while any of getItem / setItem / removeItem may throw.           *)
(***************************************************************************)
\* the sessionStorage operations (getItem, setItem, removeItem) that throw
\* during one call of the store
IoModes == SUBSET {"get", "set", "remove"}

\* ids generateSessionId may return (timestamp plus random suffix: never an
\* id issued before)
FreshIds == {"sid3", "sid4"}

StorageItems == {ItemFor(CfgBs, Contrato1, 1), ItemFor(CfgBs, Contrato2, 1)}

\* what the tab's sessionStorage holds when the page is loaded; the first
\* item of the stored cart was persisted before abreviacionMoneda existed
StoredStates ==
  LET old == [ItemFor(CfgBs, Contrato2, 2) EXCEPT !.abreviacionMoneda = ""]
      c1  == [sessionId |-> "sid1",
              items |-> <<old, ItemFor(CfgBs, Contrato1, 1)>>]
  IN {[blob |-> Null,    sid |-> NoSession],
      [blob |-> Null,    sid |-> "sid1"],
      [blob |-> c1,      sid |-> "sid1"],
      [blob |-> c1,      sid |-> "sid2"],
      [blob |-> c1,      sid |-> NoSession],
      [blob |-> Corrupt, sid |-> "sid1"]}

InitStorage ==
  /\ cart = Null
  /\ \E e \in StoredStates :
        /\ storedCart = e.blob
        /\ storedSession = e.sid
  /\ CkUnmounted
  /\ DwUnmounted
  /\ errorModal = ModalHidden
  /\ confirmModal = ConfirmHidden
  /\ route = "boot"
  /\ navTarget = NoNav
  /\ fpCache = Null
  /\ fingerprint = ""
  /\ now = 0

NextStorage ==
  \/ \E io \in IoModes : StoreLoadCart(io)
  \/ \E item \in StorageItems : \E io \in IoModes :
        \E fresh \in FreshIds \ {storedSession} : StoreAddItem(item, io, fresh)
  \/ \E index \in -1..MaxCartLen : \E io \in IoModes : StoreRemoveItem(index, io)
  \/ \E index \in -1..MaxCartLen : \E item \in StorageItems : \E io \in IoModes :
        StoreReplaceItem(index, item, io)
  \/ \E io \in IoModes : StoreClearCart(io)

SpecStorage == InitStorage /\ [][NextStorage]_vars

(***************************************************************************)
(* Specification of the application: the collection wizard is entered for  *)
(* service s1 over a cart of three items, and the user moves between the   *)
(* wizard and the checkout.  Navigation is asynchronous (the routes are    *)
(* lazy-loaded), so handlers of the page still on screen can run while a   *)
(* navigation is pending; the confirmation modal lives in the layout and   *)
(* outlasts the wizard that opened it.                                     *)
(***************************************************************************)
CfgBs4 == Cfg("s4", "Bs.", "C")

AppCart ==
  <<ItemFor(CfgBs, Contrato2, 1), ItemFor(CfgBs, Contrato1, 1),
    ItemFor(CfgBs4, Contrato1, 1)>>

InitApp ==
  /\ cart = CartOf(AppCart)
  /\ storedCart = CartOf(AppCart)
  /\ storedSession = "sid1"
  /\ CkUnmounted
  /\ DwMount("s1")
  /\ errorModal = ModalHidden
  /\ confirmModal = ConfirmHidden
  /\ route = "servicio"
  /\ navTarget = NoNav
  /\ fpCache = Null
  /\ fingerprint = ""
  /\ now = 0

NextApp ==
  \/ \E i \in 1..MaxInFlight : StatusResponse(i, "active")
  \/ \E i \in 1..MaxInFlight : ConfigResponse(i, OkResp(CfgOf(aliasServicio)))
  \/ SetCodigoDeuda(Codigo1)
  \/ ConsultContracts
  \/ \E i \in 1..MaxInFlight : ContractsResponse(i, OkResp(<<Contrato1>>))
  \/ \E i \in 1..MaxInFlight : DebtsResponse(i, OkResp(DebtList(1)))
  \/ AddToCart
  \/ HandleConfirm
  \/ HandleCancel
  \/ \E target \in {Nav("carrito", ""), Nav("servicio", "s1")} : Navigate(target)
  \/ NavigationEnd
  \/ \E i \in 1..MaxInFlight : DwOrphanResponse(i, "none")
  \/ \E index \in 0..(Len(itemsCart) - 1) : CkRemoveItem(index)

SpecApp == InitApp /\ [][NextApp]_vars

(***************************************************************************)
(* The confirmation modal in front of one wizard whose service already has *)
(* both contracts in the cart: every addToCart finds a duplicate.  The     *)
(* promises whose resolver a later confirm() overwrote are kept on record. *)
(***************************************************************************)
InitConfirm ==
  /\ cart = CartOf(AppCart)
  /\ storedCart = CartOf(AppCart)
  /\ storedSession = "sid1"
  /\ CkUnmounted
  /\ DwMount("s1")
  /\ errorModal = ModalHidden
  /\ confirmModal = [ConfirmHidden EXCEPT !.tracked = TRUE]
  /\ route = "servicio"
  /\ navTarget = NoNav
  /\ fpCache = Null
  /\ fingerprint = ""
  /\ now = 0

NextConfirm ==
  \/ Staying /\ \E i \in 1..MaxInFlight : StatusResponse(i, "active")
  \/ Staying /\ \E i \in 1..MaxInFlight :
        ConfigResponse(i, OkResp(CfgOf(aliasServicio)))
  \/ Staying /\ SetCodigoDeuda(Codigo1)
  \/ Staying /\ ConsultContracts
  \/ Staying /\ \E i \in 1..MaxInFlight :
        ContractsResponse(i, OkResp(<<Contrato1, Contrato2>>))
  \/ Staying /\ \E c \in Range(contracts) : SelectContract(c)
  \/ Staying /\ ConfirmContract
  \/ Staying /\ \E i \in 1..MaxInFlight : DebtsResponse(i, OkResp(DebtList(1)))
  \/ Staying /\ DwPrevStep
  \/ Staying /\ AddToCart
  \/ Staying /\ HandleConfirm
  \/ Staying /\ HandleCancel

SpecConfirm == InitConfirm /\ [][NextConfirm]_vars

(***************************************************************************)
(* Properties of the checkout wizard                                       *)
(***************************************************************************)
\* C1: the checkout is on step 5 only if a payment submission returned
\* success, i.e. processPayment stored a QR result.
C1_StepFiveOnlyAfterPaymentSuccess ==
  ckCurrentStep = 5 => qrData = QrOk

\* C2: a payment response with success and data stores the returned QR image
\* and validity label, clears the Cart Store (no items, no persisted blob),
\* sets currentStep to 5 and leaves loading false.
C2_PaymentSuccessEffect ==
  [][\A i \in 1..MaxInFlight :
       PaymentResponse(i, "success") =>
         /\ qrData' = QrOk
         /\ Items(cart') = << >>
         /\ storedCart' = Null
         /\ ckCurrentStep' = 5
         /\ ckLoading' = FALSE]_vars

\* a successful payment has been processed over a non-empty cart
C2_Witness ==
  /\ qrData = QrOk
  /\ ckCurrentStep = 5
  /\ itemsCart # << >>
  /\ cart = Null
  /\ storedCart = Null
  /\ ~ckLoading

C21_StepFiveAbsorbing ==
  [][/\ ckCurrentStep = 5 => ckCurrentStep' = 5
     /\ (ckCurrentStep = 5 /\ CkPrevStep) =>
            UNCHANGED <<ckCurrentStep, ckErrors>>]_vars

\* the wizard is on step 5 showing an error, a late response still pending
C21_Witness ==
  /\ ckCurrentStep = 5
  /\ qrData = QrOk
  /\ ckErrors # << >>
  /\ \E i \in DOMAIN ckPending : ckPending[i].live

\* C22: the checkout leaves step 1 forwards only when the local cart snapshot
\* has at least one item, and leaves step 2 forwards only when a payment
\* method is selected; a refused advance keeps currentStep and reports the
\* step's error.
C22_ForwardGuards ==
  [][/\ (ckCurrentStep = 1 /\ ckCurrentStep' = 2) => HasItems(itemsCart)
     /\ (ckCurrentStep = 2 /\ ckCurrentStep' = 3) => form.medioPago # ""
     /\ (/\ HandleNextStep
         /\ \/ ckCurrentStep = 1 /\ ~HasItems(itemsCart)
            \/ ckCurrentStep = 2 /\ form.medioPago = "")
          => /\ ckCurrentStep' = ckCurrentStep
             /\ ckErrors' = <<IF ckCurrentStep = 1
                               THEN "El carrito esta vacio"
                               ELSE "Debe seleccionar un metodo de pago">>]_vars

\* C23: the checkout moves from step 3 to step 4 only in a state where the
\* e-mail is non-empty and matches the address pattern and, when the summed
\* commissions are greater than zero, business name and document number are
\* both non-empty; with zero commissions handleNextStep advances on a valid
\* e-mail alone.
C23_BillingGuard ==
  [][/\ (ckCurrentStep = 3 /\ ckCurrentStep' = 4) =>
          /\ form.correoElectronico # Str0
          /\ EmailRegexTest(form.correoElectronico)
          /\ HasCommissions(itemsCart) =>
                form.razonSocial # Str0 /\ form.documentoSIN # Str0
     /\ (/\ HandleNextStep
         /\ ckCurrentStep = 3
         /\ ~HasCommissions(itemsCart)
         /\ form.correoElectronico # Str0
         /\ EmailRegexTest(form.correoElectronico)) => ckCurrentStep' = 4]_vars

\* C24: on step 3 with commissions > 0 and document type NIT, a handleNextStep
\* whose validation passes and whose document number is 99001, 99002 or 99003
\* moves to step 4 and issues no NIT verification call; with zero commissions
\* or another document type the NIT sub-step is not entered at all: the
\* wizard advances without a call whatever the number.
C24_ReservedNitSkipsVerification ==
  [][(/\ HandleNextStep
      /\ ckCurrentStep = 3
      /\ ValidateBillingShipping(form, itemsCart) = ""
      /\ \/ form.documentoSIN \in {Nit99001, Nit99002, Nit99003}
         \/ ~HasCommissions(itemsCart)
         \/ form.tipoDocumento # 5)
       => /\ ckCurrentStep' = 4
          /\ ckPending' = ckPending
          /\ ckLoading' = ckLoading]_vars

\* step 4 was entered with commissions, type NIT and the control number 99001
\* or 99003, no verification ever answered invalid and none is pending
C24_Witness ==
  /\ ckCurrentStep = 4
  /\ HasCommissions(itemsCart)
  /\ form.tipoDocumento = 5
  /\ form.documentoSIN \in {Nit99001, Nit99003}
  /\ form.excepcionNIT = "false"
  /\ ~showExceptionNIT
  /\ ckPending = << >>

\* C25: on step 3 with commissions > 0, document type NIT and a number that
\* is not reserved, a verification answered invalid while the exception is
\* not accepted keeps the wizard on step 3, adds the NIT error, makes the
\* exception control visible and starts no new call (nothing is retried);
\* once the exception is set to accepted, handleNextStep moves to step 4
\* without a verification call.
C25_NitExceptionFlow ==
  [][/\ \A i \in 1..MaxInFlight :
          (/\ NitResponse(i, "invalid")
           /\ ckCurrentStep = 3
           /\ form.excepcionNIT # "true")
            => /\ ckCurrentStep' = 3
               /\ showExceptionNIT'
               /\ ckErrors' = Append(ckErrors,
                    "NIT invalido. Confirme si se realiza Excepcion de registro con ese NIT")
               /\ ckPending' = RemoveAt(ckPending, i)
               /\ ~ckLoading'
     /\ (/\ HandleNextStep
         /\ ckCurrentStep = 3
         /\ HasCommissions(itemsCart)
         /\ form.tipoDocumento = 5
         /\ form.documentoSIN = NitOther
         /\ form.razonSocial # Str0
         /\ form.correoElectronico = EmailGood
         /\ showExceptionNIT
         /\ form.excepcionNIT = "true")
          => /\ ckCurrentStep' = 4
             /\ ckPending' = ckPending
             /\ ckLoading' = ckLoading]_vars

\* after an invalid answer the exception was accepted and step 4 entered,
\* with no verification pending
C25_Witness ==
  /\ ckCurrentStep = 4
  /\ HasCommissions(itemsCart)
  /\ form.tipoDocumento = 5
  /\ form.documentoSIN = NitOther
  /\ form.excepcionNIT = "true"
  /\ showExceptionNIT
  /\ ckErrors = << >>
  /\ ckPending = << >>
  /\ ~ckLoading

C4_ToggleOneCascades ==
  [][selectedDebts' # selectedDebts =>
       \A index \in 0..(MaxDebts - 1) : \A checked \in BOOLEAN :
          (index < Len(selectedDebts) /\ ToggleDeuda(index, checked)) =>
             /\ Len(selectedDebts') = Len(selectedDebts)
             /\ IF checked
                THEN /\ \A k \in 1..(index + 1) : selectedDebts'[k]
                     /\ \A k \in (index + 2)..Len(selectedDebts) :
                           selectedDebts'[k] = selectedDebts[k]
                ELSE /\ \A k \in (index + 1)..Len(selectedDebts) :
                           ~selectedDebts'[k]
                     /\ \A k \in 1..index :
                           selectedDebts'[k] = selectedDebts[k]]_vars

\* a loaded list of three periods or more with a partial selection, which
\* only toggleDeuda produces
C4_Witness ==
  /\ Len(outstandingDebts) >= 3
  /\ Len(selectedDebts) = Len(outstandingDebts)
  /\ selectedDebts[1]
  /\ ~selectedDebts[2]
  /\ ~selectedDebts[3]

\* C5: after the debts have loaded and after any toggleDeuda(i, checked)
\* with 0 <= i < N and toggleTodasDeudas(checked), no period is selected at
\* an index above an unselected one, and every item of the cart holds a
\* gap-free run of periods starting at the oldest.
C5_SelectionIsPrefix ==
  /\ \A j \in DOMAIN selectedDebts : \A k \in DOMAIN selectedDebts :
        (j < k /\ selectedDebts[k]) => selectedDebts[j]
  /\ \A n \in DOMAIN Items(cart) :
        \A j \in DOMAIN Items(cart)[n].deudasSeleccionadas :
           Items(cart)[n].deudasSeleccionadas[j] = DebtAt(j)

\* addToCart has added an item for the first two of three loaded periods
C5_Witness ==
  /\ navTarget = Nav("carrito", "")
  /\ Len(outstandingDebts) = 3
  /\ selectedDebts = <<TRUE, TRUE, FALSE>>
  /\ Len(Items(cart)) > 0
  /\ Len(Items(cart)[Len(Items(cart))].deudasSeleccionadas) = 2

\* C6: the item addToCart hands to the Cart Store (appended, or put in the
\* duplicate's place) has totalServicio = the sum of periodoServicio over
\* exactly the selected periods, totalComision = the sum of periodoComision
\* over them, totalGeneral = totalServicio + totalComision, and
\* deudasSeleccionadas = exactly the selected periods in list order.
C6_ItemTotals ==
  [][(cart' # cart /\ (AddToCart \/ HandleConfirm)) =>
       \E n \in DOMAIN Items(cart') :
          LET it  == Items(cart')[n]
              sel == {j \in DOMAIN outstandingDebts :
                        j \in DOMAIN selectedDebts /\ selectedDebts[j]}
              RECURSIVE Sum(_, _)
              Sum(field, k) ==
                IF k = 0 THEN 0
                ELSE (IF k \in sel THEN outstandingDebts[k][field] ELSE 0)
                     + Sum(field, k - 1)
              Nth(j) == CHOOSE i \in sel : Cardinality({h \in sel : h <= i}) = j
          IN /\ \A j \in DOMAIN Items(cart) :
                   j # n => Items(cart')[j] = Items(cart)[j]
             /\ it.totalServicio = Sum("periodoServicio", Len(outstandingDebts))
             /\ it.totalComision = Sum("periodoComision", Len(outstandingDebts))
             /\ it.totalGeneral = it.totalServicio + it.totalComision
             /\ Len(it.deudasSeleccionadas) = Cardinality(sel)
             /\ \A j \in 1..Cardinality(sel) :
                   it.deudasSeleccionadas[j] = outstandingDebts[Nth(j)]]_vars

\* an item for periods 1 and 2 of three (10.00 + 20.00 of service, 0.25 of
\* commission) has been handed to the cart
C6_Witness ==
  /\ navTarget = Nav("carrito", "")
  /\ selectedDebts = <<TRUE, TRUE, FALSE>>
  /\ \E n \in DOMAIN Items(cart) :
        /\ Items(cart)[n].totalServicio = 30000
        /\ Items(cart)[n].totalComision = 250
        /\ Items(cart)[n].totalGeneral = 30250

\* C7: canAddItemWithCurrency(c) answers canAdd = true, no existing currency
\* on an empty cart, and canAdd = (first item's currency = c) with the first
\* item's currency otherwise; addToCart finding canAdd = false shows the
\* WARN_CURRENCY warning, leaves the cart and its blob as they were and does
\* not show the duplicate confirmation.
C7_CurrencyCheck ==
  /\ [](\A c \in {"Bs.", "USD."} :
          LET r == CanAddItemWithCurrency(cart, c)
          IN IF Items(cart) = << >>
             THEN r.canAdd /\ r.existingCurrency = "null"
             ELSE /\ r.canAdd = (Items(cart)[1].abreviacionMoneda = c)
                  /\ r.existingCurrency = Items(cart)[1].abreviacionMoneda)
  /\ [][(/\ QuantitySelectedDebts(selectedDebts) > 0
         /\ selectedContract # Null /\ associateData # Null /\ config # Null
         /\ Items(cart) # << >>
         /\ Items(cart)[1].abreviacionMoneda # config.abreviacionMoneda
         /\ AddToCart) =>
           /\ errorModal'.visible
           /\ errorModal'.type = "warning"
           /\ errorModal'.code = "WARN_CURRENCY"
           /\ cart' = cart
           /\ storedCart' = storedCart
           /\ confirmModal' = confirmModal]_vars

\* the USD. service was submitted over a cart of Bs. items
C7_Witness ==
  /\ errorModal.visible
  /\ errorModal.code = "WARN_CURRENCY"
  /\ config = CfgUsd
  /\ Items(cart) # << >>
  /\ Items(cart)[1].abreviacionMoneda = "Bs."
  /\ storedCart = cart
  /\ ~confirmModal.visible

C11_SubmitPreconditions ==
  [][((\/ \A k \in DOMAIN selectedDebts : ~selectedDebts[k]
       \/ selectedContract = Null
       \/ associateData = Null
       \/ config = Null) /\ AddToCart) =>
        /\ dwErrors' = Append(dwErrors,
              IF \A k \in DOMAIN selectedDebts : ~selectedDebts[k]
              THEN "Seleccione al menos una deuda" ELSE "Datos incompletos")
        /\ errorModal' = errorModal
        /\ confirmModal' = confirmModal
        /\ cart' = cart
        /\ storedCart' = storedCart
        /\ storedSession' = storedSession
        /\ dwCurrentStep' = dwCurrentStep
        /\ navTarget' = navTarget]_vars

\* step 3 with periods selected while the service configuration has not
\* arrived: the submit was refused with "Datos incompletos"
C11_Witness ==
  /\ dwCurrentStep = 3
  /\ config = Null
  /\ selectedContract # Null
  /\ \E k \in DOMAIN selectedDebts : selectedDebts[k]
  /\ dwErrors = <<"Datos incompletos">>
  /\ ~errorModal.visible
  /\ ~confirmModal.visible
  /\ navTarget = NoNav

\* C28: the wizard's configuration is only ever that of a service whose
\* status check answered active and whose operation mode is the collection
\* type, and the wizard adds no cart item for a service reported inactive
\* or of another mode: with s1 the only active collection service, the
\* configuration is null or s1's and every item of the cart is an s1 item.
C28_EligibilityGate ==
  /\ config # Null =>
        config.aliasServicio = "s1" /\ config.formaOperaciones = "C"
  /\ \A k \in DOMAIN Items(cart) : Items(cart)[k].aliasServicio = "s1"

\* C18: when a search made on step 1 is answered with exactly one contract,
\* the response step selects that contract and issues the debts query for it
\* (no user action in between) without changing currentStep; while that
\* query is in flight currentStep is 1, never 2; and its answer takes the
\* wizard from step 1 to step 3.
C18_SoleContractSkipsStepTwo ==
  /\ []((\E i \in DOMAIN dwPending :
             /\ dwPending[i].kind = "debts"
             /\ dwPending[i].live
             /\ dwPending[i].data.chain = "consult") => dwCurrentStep = 1)
  /\ [][\A i \in 1..MaxInFlight :
          /\ ContractsResponse(i, OkResp(<<Contrato1>>)) =>
                /\ selectedContract' = Contrato1
                /\ dwPending'[i] = Call("debts", [contract |-> Contrato1,
                                                  chain    |-> "consult"])
                /\ dwCurrentStep' = dwCurrentStep
          /\ \A resp \in {OkResp(DebtList(0)), OkResp(DebtList(MaxDebts)), FailResp} :
                (/\ i \in DOMAIN dwPending
                 /\ dwPending[i].kind = "debts"
                 /\ dwPending[i].data.chain = "consult"
                 /\ DebtsResponse(i, resp)) =>
                   /\ dwCurrentStep = 1
                   /\ dwCurrentStep' = 3
                   /\ selectedContract' = selectedContract]_vars

C20_ContractSelect ==
  [][/\ \A c \in {Contrato1, Contrato2} :
           (dwCurrentStep = 2 /\ SelectContract(c)) =>
              /\ selectedContract' = c
              /\ UNCHANGED <<dwCurrentStep, dwLoading, dwErrors, dwPending,
                             contracts, outstandingDebts, selectedDebts,
                             associateData, modalVars, navVars, cartVars>>
     /\ (dwCurrentStep = 2 /\ selectedContract = Null /\ ConfirmContract) =>
           /\ dwPending' = dwPending
           /\ dwCurrentStep' = 2
           /\ dwErrors' = Append(dwErrors, "Seleccione un contrato")
     /\ (dwCurrentStep = 2 /\ selectedContract # Null /\ ConfirmContract) =>
           /\ dwPending' = Append(dwPending,
                 Call("debts", [contract |-> selectedContract, chain |-> "confirm"]))
           /\ dwCurrentStep' = 2
     /\ \A i \in 1..MaxInFlight :
           \A resp \in {OkResp(DebtList(0)), OkResp(DebtList(MaxDebts)), FailResp} :
              (/\ i \in DOMAIN dwPending
               /\ dwPending[i].kind = "debts"
               /\ dwPending[i].data.chain = "confirm"
               /\ DebtsResponse(i, resp)) =>
                 /\ dwCurrentStep' = 3
                 /\ resp = OkResp(DebtList(0)) =>
                       /\ outstandingDebts' = << >>
                       /\ selectedDebts' = << >>
                       /\ dwErrors' = dwErrors
                       /\ errorModal' = errorModal]_vars

\* contract c2 was chosen from a list of two and confirmed, and the debts
\* answer held no period: step 3 with empty lists and no error
C20_Witness ==
  /\ dwCurrentStep = 3
  /\ Len(contracts) = 2
  /\ selectedContract = Contrato2
  /\ outstandingDebts = << >>
  /\ selectedDebts = << >>
  /\ dwErrors = << >>
  /\ ~errorModal.visible
  /\ dwPending = << >>
  /\ ~dwLoading

(***************************************************************************)
(* Properties of the Cart Store and of the application                     *)
(***************************************************************************)
\* C8: in every state reached through addItem, removeItem, replaceItem and
\* clearCart, all items of the cart have the same abreviacionMoneda.
C8_SingleCurrency ==
  \A j \in DOMAIN Items(cart) : \A k \in DOMAIN Items(cart) :
     Items(cart)[j].abreviacionMoneda = Items(cart)[k].abreviacionMoneda

\* C9: in every state of the application no two items of the cart have the
\* same (aliasServicio, codigoContrato).
C9_NoDuplicateIdentity ==
  \A j \in DOMAIN Items(cart) : \A k \in DOMAIN Items(cart) :
     (/\ Items(cart)[j].aliasServicio = Items(cart)[k].aliasServicio
      /\ Items(cart)[j].codigoContrato = Items(cart)[k].codigoContrato) => j = k

(***************************************************************************)
(* Properties of the Cart Store's methods                                  *)
(***************************************************************************)
\* C12: when removeItem removes the only item of the cart (storage working),
\* afterwards items() is empty and STORAGE_KEY is gone, and the next addItem
\* stamps the cart with a newly generated session id, different from the id
\* the removed cart carried.
C12_LastRemovalResetsSession ==
  [][(/\ cart # Null
      /\ Len(Items(cart)) = 1
      /\ StoreRemoveItem(0, {})) =>
        /\ Items(cart') = << >>
        /\ storedCart' = Null
        /\ \A item \in StorageItems : \A fresh \in FreshIds \ {cart.sessionId} :
              LET next == AddItem(Env(StoreOf(cart', storedCart', storedSession'),
                                      {}, fresh), item)
              IN /\ next.ret
                 /\ next.st.cart.sessionId # cart.sessionId]_vars

\* C13: loadCart (storage working) on a blob that does not parse, or whose
\* sessionId differs from the id under SESSION_KEY (no id stored included),
\* leaves the cart signal null, items() empty and STORAGE_KEY removed; on a
\* blob whose sessionId matches it restores the blob's items, as many and in
\* the same order, and leaves the blob in place.
C13_LoadCartValidatesSession ==
  [][StoreLoadCart({}) =>
       /\ (\/ storedCart = Corrupt
           \/ /\ storedCart # Null
              /\ storedCart # Corrupt
              /\ storedCart.sessionId # storedSession) =>
             /\ cart' = Null
             /\ Items(cart') = << >>
             /\ storedCart' = Null
       /\ (/\ storedCart # Null
           /\ storedCart # Corrupt
           /\ storedCart.sessionId = storedSession) =>
             /\ cart' # Null
             /\ cart'.sessionId = storedCart.sessionId
             /\ Len(cart'.items) = Len(storedCart.items)
             /\ \A k \in DOMAIN storedCart.items :
                   /\ cart'.items[k].aliasServicio = storedCart.items[k].aliasServicio
                   /\ cart'.items[k].codigoContrato = storedCart.items[k].codigoContrato
                   /\ cart'.items[k].totalGeneral = storedCart.items[k].totalGeneral
                   /\ cart'.items[k].deudasSeleccionadas =
                         storedCart.items[k].deudasSeleccionadas
             /\ storedCart' = storedCart]_vars

\* the page was loaded over a blob stamped 'sid1' while SESSION_KEY held
\* 'sid2': the blob is gone and the cart is empty
C13_Witness ==
  /\ route = "home"
  /\ storedSession = "sid2"
  /\ cart = Null
  /\ storedCart = Null

\* C14: addItem returns false only if a sessionStorage operation failed, and
\* whenever it returns false items() nevertheless ends with the new item;
\* when no storage operation fails it returns true and items() is the former
\* list with the new item appended.
C14_AddItemFailureKeepsMemory ==
  StoreLive =>
    \A item \in StorageItems : \A io \in IoModes : \A fresh \in FreshIds :
       LET r == AddItem(Env(Store, io, fresh), item)
       IN /\ ~r.ret => io # {}
          /\ ~r.ret => Items(r.st.cart) = Append(Items(cart), item)
          /\ io = {} => /\ r.ret
                        /\ Items(r.st.cart) = Append(Items(cart), item)

\* C15: whichever sessionStorage operations throw, no call of loadCart,
\* addItem, removeItem, replaceItem or clearCart ends by throwing to its
\* caller.
C15_NoExceptionEscapes ==
  \A io \in IoModes :
     /\ ~LoadCart(Env(StoreOf(Null, storedCart, storedSession), io, "sid3")).threw
     /\ StoreLive =>
          /\ \A item \in StorageItems :
                ~AddItem(Env(Store, io, "sid3"), item).st.threw
          /\ \A index \in -1..MaxCartLen :
                /\ ~RemoveItem(Env(Store, io, "sid3"), index).threw
                /\ \A item \in StorageItems :
                      ~ReplaceItem(Env(Store, io, "sid3"), index, item).st.threw
          /\ ~ClearCart(Env(Store, io, "sid3")).threw

\* C16: with index < 0, index >= itemCount or no cart, removeItem and
\* replaceItem leave items() as it was and replaceItem returns false; with
\* a valid index replaceItem puts newItem at that position and leaves the
\* other positions and the item count as they were (whatever the storage
\* does).
C16_IndexBounds ==
  StoreLive =>
    \A io \in IoModes : \A index \in -1..MaxCartLen : \A item \in StorageItems :
       LET n  == Len(Items(cart))
           rm == RemoveItem(Env(Store, io, "sid3"), index)
           rp == ReplaceItem(Env(Store, io, "sid3"), index, item)
       IN IF index < 0 \/ index >= n
          THEN /\ Items(rm.cart) = Items(cart)
               /\ Items(rp.st.cart) = Items(cart)
               /\ ~rp.ret
          ELSE /\ Len(Items(rp.st.cart)) = n
               /\ \A k \in 1..n :
                     Items(rp.st.cart)[k] =
                        IF k = index + 1 THEN item ELSE Items(cart)[k]

\* the restored two-item cart after replaceItem(0, ...) put another item in
\* front: the second item is the one that was there, and the cart was saved
C16_Witness ==
  /\ StoreLive
  /\ cart # Null
  /\ cart.sessionId = "sid1"
  /\ cart.items = <<ItemFor(CfgBs, Contrato2, 1), ItemFor(CfgBs, Contrato1, 1)>>
  /\ storedCart = cart

\* C17: findDuplicateIndex(alias, contract) is -1 when no item has both that
\* aliasServicio and that codigoContrato (one of the two is not enough), and
\* otherwise the index of the first item that has both: the only one when
\* there is one, the lowest when there are several.
C17_FindDuplicateIndex ==
  \A alias \in {"s1", "s2", "s4"} : \A contrato \in {"c1", "c2", "c3"} :
     LET its == Items(cart)
         d   == FindDuplicateIndex(cart, alias, contrato)
         Match(k) == /\ its[k].aliasServicio = alias
                     /\ its[k].codigoContrato = contrato
     IN /\ d \in -1..(Len(its) - 1)
        /\ d = -1 <=> ~\E k \in DOMAIN its : Match(k)
        /\ d # -1 => /\ Match(d + 1)
                     /\ \A k \in 1..d : ~Match(k)

\* addToCart for (s1, c1) asked findDuplicateIndex over a cart whose first
\* item shares only the alias and whose third shares only the contract: the
\* confirmation holds index 1
C17_Witness ==
  /\ confirmModal.visible
  /\ confirmModal.resolver # Null
  /\ confirmModal.resolver.duplicateIndex = 1
  /\ Len(Items(cart)) = 3
  /\ Items(cart)[1].aliasServicio = "s1"
  /\ Items(cart)[1].codigoContrato = "c2"
  /\ Items(cart)[3].aliasServicio = "s4"
  /\ Items(cart)[3].codigoContrato = "c1"


(***************************************************************************)
(* Properties of the modal services                                        *)
(***************************************************************************)
\* C29: the confirmation modal holds one resolver at most.  A confirm() made
\* while a promise is pending replaces the held resolver by the new one and
\* leaves the earlier promise behind; handleConfirm and handleCancel hide
\* the modal and clear the resolver, resolving the held promise only (with
\* true: the awaiting addToCart replaces the item at that call's duplicate
\* index; with false: nothing changes); a promise left behind is never
\* resolved; a click with no resolver held changes nothing but visibility.
C29_SingleResolver ==
  [][/\ Len(confirmModal'.superseded) >= Len(confirmModal.superseded)
     /\ \A k \in DOMAIN confirmModal.superseded :
           confirmModal'.superseded[k] = confirmModal.superseded[k]
     /\ (AddToCart /\ confirmModal' # confirmModal) =>
           /\ confirmModal'.visible
           /\ confirmModal'.resolver.selectedContract = selectedContract
           /\ confirmModal'.superseded =
                 IF confirmModal.resolver = Null THEN confirmModal.superseded
                 ELSE Append(confirmModal.superseded, confirmModal.resolver)
     /\ (HandleConfirm \/ HandleCancel) =>
           /\ ~confirmModal'.visible
           /\ confirmModal'.resolver = Null
           /\ confirmModal'.superseded = confirmModal.superseded
     /\ HandleCancel => cart' = cart /\ navTarget' = navTarget
     /\ (HandleConfirm /\ confirmModal.resolver = Null) =>
           cart' = cart /\ navTarget' = navTarget
     /\ (HandleConfirm /\ confirmModal.resolver # Null) =>
           LET d == confirmModal.resolver.duplicateIndex + 1
           IN IF d \in DOMAIN Items(cart)
              THEN /\ Len(Items(cart')) = Len(Items(cart))
                   /\ \A j \in DOMAIN Items(cart) :
                         j # d => Items(cart')[j] = Items(cart)[j]
                   /\ Items(cart')[d].codigoContrato =
                         confirmModal.resolver.selectedContract.codigoContrato
              ELSE Items(cart') = Items(cart)]_vars

\* a click has resolved the later of two confirm() calls made for different
\* contracts: the modal is hidden, no resolver is held, the item of the later
\* call's contract was replaced and the earlier promise is still pending
C29_Witness ==
  /\ ~confirmModal.visible
  /\ confirmModal.resolver = Null
  /\ Len(confirmModal.superseded) = 1
  /\ confirmModal.superseded[1].selectedContract = Contrato1
  /\ selectedContract = Contrato2
  /\ navTarget = Nav("carrito", "")

NextResearch ==
  \/ Staying /\ \E i \in 1..MaxInFlight : StatusResponse(i, "active")
  \/ Staying /\ \E i \in 1..MaxInFlight :
        ConfigResponse(i, OkResp(CfgOf(aliasServicio)))
  \/ Staying /\ \E v \in {Codigo1, <<"8">>, <<"9">>} : SetCodigoDeuda(v)
  \/ Staying /\ ConsultContracts
  \/ Staying /\ \E i \in DOMAIN dwPending :
        ContractsResponse(i,
           OkResp(IF dwPending[i].data = Codigo1 THEN <<Contrato1, Contrato2>>
                  ELSE IF dwPending[i].data = <<"8">>
                    THEN <<Contrato2, Contrato("c3", Str0)>>
                  ELSE <<Contrato1>>))
  \/ Staying /\ \E c \in Range(contracts) : SelectContract(c)
  \/ Staying /\ ConfirmContract
  \/ Staying /\ \E i \in 1..MaxInFlight : DebtsResponse(i, OkResp(DebtList(1)))
  \/ Staying /\ DwPrevStep

SpecResearch == InitSearch /\ [][NextResearch]_vars

(***************************************************************************)
(* Properties of the loading flags and of calls in flight                  *)
(***************************************************************************)
\* C31: while a wizard's loading flag is true, its handlers consultContracts,
\* confirmContract, selectContract and addToCart (debt collection),
\* handleNextStep and processPayment (checkout) do nothing: no backend call
\* is issued and neither the wizard's nor the cart's state changes.
C31_LoadingGuard ==
  [][/\ (/\ dwLoading
         /\ \/ ConsultContracts
            \/ ConfirmContract
            \/ AddToCart
            \/ \E c \in Range(contracts) : SelectContract(c))
        => UNCHANGED <<dwVars, cartVars, confirmModal>>
     /\ (/\ ckLoading
         /\ HandleNextStep \/ ProcessPayment({}))
        => UNCHANGED <<ckVars, cartVars>>]_vars

\* C32: in each wizard the loading flag is true exactly while a call the
\* wizard issued (status, configuration, contracts, debts, NIT verification,
\* payment with its fingerprint stage) still awaits its answer, also when
\* calls are chained or overlap.
C32_LoadingTracksCalls ==
  /\ DwLive => (dwLoading <=> \E k \in DOMAIN dwPending : dwPending[k].live)
  /\ CkLive => (ckLoading <=> \E k \in DOMAIN ckPending : ckPending[k].live)

\* C33: at most one payment is in flight: of the submissions processPayment
\* has started (fingerprint stage or generateQRcode request awaiting its
\* answer) no two are pending together.
C33_OnePaymentInFlight ==
  Cardinality({k \in DOMAIN ckPending :
                 ckPending[k].kind \in {"fp", "pay"}}) <= 1

\* C34: what a wizard started before it was torn down (a backend call, a
\* payment with its fingerprint stage, a confirmation dialog) changes no
\* global state when it completes afterwards: the cart and its persisted
\* blob, the error modal and the navigation stay as they were.
C34_TornDownDiscarded ==
  [][(\/ \E i \in 1..MaxInFlight :
           \E effect \in {"none", "inactive"} \cup ErrorTypes :
              DwOrphanResponse(i, effect)
      \/ \E i \in 1..MaxInFlight : \E resp \in PaymentResponses :
           CkOrphanResponse(i, resp)
      \/ /\ confirmModal.resolver # Null
         /\ ~confirmModal.resolver.live
         /\ HandleConfirm \/ HandleCancel)
     => UNCHANGED <<cartVars, errorModal, navVars>>]_vars

(***************************************************************************)
(* Invariants of the collection wizard                                     *)
(***************************************************************************)
\* C35: a selected contract is one of the contracts of the current list, the
\* result of the latest successful search, also after going back to step 1
\* and searching again.
C35_SelectedContractIsListed ==
  selectedContract # Null => selectedContract \in Range(contracts)

C37_VerifiedNitAdvances ==
  [][(/\ ckCurrentStep = 3
      /\ ckCurrentStep' = 4
      /\ HasCommissions(itemsCart)
      /\ form.tipoDocumento = 5)
     => \/ form.documentoSIN \in {Nit99001, Nit99002, Nit99003}
        \/ form.excepcionNIT = "true"
        \/ \E i \in DOMAIN ckPending :
              /\ ckPending[i].kind = "nit"
              /\ ckPending[i].data = form.documentoSIN
              /\ NitResponse(i, "valid")]_vars

\* C38: every payment request in flight carries at least one item, the
\* method 'Q' and a non-empty e-mail
C38_PaymentRequestHasItems ==
  \A k \in DOMAIN ckPending :
     ckPending[k].kind = "pay" =>
        /\ Len(ckPending[k].data.itemsCarrito) >= 1
        /\ ckPending[k].data.medioPago = "Q"
        /\ Trim(ckPending[k].data.correoElectronico) # Str0

C40_SnapshotMirrorsStore ==
  (CkLive /\ qrData = QrEmpty) =>
     /\ itemsCart = Items(cart)
     /\ CkTotalServices(itemsCart) = CartTotal(Items(cart), "totalServicio")
     /\ CkTotalCommissions(itemsCart) = CartTotal(Items(cart), "totalComision")
     /\ CkTotalGeneral(itemsCart) = CartTotal(Items(cart), "totalGeneral")

====
